---- MODULE Spec2Model ----
(***************************************************************************)
(* Gap-sheet update of AUTO_DIALER: the three gap writers (FilterFile,     *)
(* GapsActionsFile, GapSpreadsheetUpdater), their insertion-point finders, *)
(* the per-sheet loops and the callers that report the outcome.            *)
(*                                                                         *)
(* A sheet is a sequence of rows, row r of the sequence being row r of the *)
(* spreadsheet (1-based).  A row holds its column-A cell (a), the 5-cell   *)
(* gap-info block (info, <<>> when never written) and the cell of the      *)
(* formula column span (f).  The empty string is a blank cell.  Cells keep *)
(* the strings that were sent to the backend.                              *)
(***************************************************************************)
EXTENDS Integers, Sequences, FiniteSets, TLC

VARIABLES
    sheet,       \* the destination sheet (single-sheet specifications)
    config,      \* the configuration of that sheet (read-only during a run)
    runsLeft,    \* number of runs that may still start (bounds the behaviour)
    log,         \* history: one record per run whose value write succeeded
    last,        \* history: what the latest run read, computed and did
    readFailed,  \* history: some finder read raised in this behaviour
    sheets,      \* multi-sheet specifications: sheet key -> column A
    attempts,    \* multi-sheet specifications: keys attempted, in order
    response,    \* multi-sheet specifications: what the caller received
    finder,      \* finder specification: the call made and its outcome
    race,        \* two runs against one sheet: each run's position and locals
    retry,       \* _make_paycall_request_with_retry: loop position and history
    paycall,     \* get_paycall_data: loop position, locals and history
    inserter,    \* _insert_rows: the call made and the backend calls it issued
    scan,        \* BaseSpreadsheetUpdater._find_first_empty_row: loop position and reads
    columns,     \* column-letter arithmetic: the arguments and the results
    server       \* the billing server of the paging specification: its records

vars == <<sheet, config, runsLeft, log, last, readFailed, sheets, attempts,
          response, finder, race, retry, paycall, inserter, scan, columns, server>>

----------------------------------------------------------------------------
(* Bounds of the model *)

MaxRuns == 2
MaxGaps == 2
MaxData == 3
MaxCol == 5
MaxUpdRuns == 2
MaxUpdData == 3
MaxUpdGaps == 2
MaxSheets == 3
MaxPayGaps == 2
MaxRetries == 2
MaxPages == 3
MaxLimit == 2
MaxRows == 2
MaxInsStart == 4
MaxInsRows == 2
MaxTemplate == 3
MaxLetters == 3
MaxNumber == 800
MaxStartLetters == 2
MaxOffset == 5
MaxPostSheets == 2
MaxServer == 4

(* Program constants *)

ReadLimit == 1000
chunk_size == 1000
SafetyLimit == 10000
FallbackColumnCount == 26

\* Mutant of insert_at_row: the block goes below the first data row.
insert_at_row_three == 2 + 1

\* GapSpreadsheetUpdater inserts new data below the header.
insert_at_row == 2

----------------------------------------------------------------------------
(* Values *)

Header == "Header"
Data == "d"
GapValues == {"0012", "0099"}

BlankRow == [a |-> "", info |-> <<>>, f |-> ""]
HeaderRow == [a |-> Header, info |-> <<>>, f |-> ""]
DataRow == [a |-> Data, info |-> <<>>, f |-> ""]

Min(a, b) == IF a <= b THEN a ELSE b
Max(a, b) == IF a >= b THEN a ELSE b

\* Non-empty gap lists of at most n values (duplicates allowed).
GapLists(n) == UNION {[1..k -> GapValues] : k \in 1..n}

\* str(x).strip() on the values of the model: " " consists of whitespace only
\* and " 0012 " is "0012" with surrounding whitespace.
Strip(v) == IF v = " " THEN "" ELSE IF v = " 0012 " THEN "0012" ELSE v

\* A header row followed by k contiguous data rows.
HeaderAndData(k) == [r \in 1..(k + 1) |-> IF r = 1 THEN HeaderRow ELSE DataRow]

\* The run metadata of the end-to-end scenario.
Metadata ==
    [date_str |-> "01.01.2025", time_str |-> "10:00",
     customers_input_file_name |-> "f.xlsx",
     caller_id |-> "0501234567", nick_name |-> "Dana"]

----------------------------------------------------------------------------
(* The spreadsheet backend *)

\* Last row in lo..r whose column-A cell is not blank, lo - 1 if none.
RECURSIVE LastNonBlank(_, _, _)
LastNonBlank(sh, lo, r) ==
    IF r < lo THEN lo - 1
    ELSE IF sh[r].a # "" THEN r
    ELSE LastNonBlank(sh, lo, r - 1)

\* spreadsheets().values().get(range = A{lo}:A{hi}): the rows of column A in
\* the range up to the last non-blank one; a blank row inside comes back as
\* the empty list.
ValuesGet(sh, lo, hi) ==
    LET top == LastNonBlank(sh, lo, Min(hi, Len(sh)))
    IN  [i \in 1..(top - lo + 1) |->
            IF sh[lo + i - 1].a = "" THEN <<>> ELSE <<sh[lo + i - 1].a>>]

\* spreadsheets().values().batchUpdate of the two ranges A{s}:A{e} and
\* {c1}{s}:{c2}{e}: the cells of the ranges take the values sent, every
\* other cell keeps its content.
BatchUpdateValues(sh, data) ==
    LET s == data[1].start_row
        e == data[1].end_row
    IN  [r \in 1..Max(Len(sh), e) |->
            IF r >= s /\ r <= e
            THEN [a |-> data[1].values[r - s + 1][1],
                  info |-> data[2].values[r - s + 1],
                  f |-> IF r <= Len(sh) THEN sh[r].f ELSE ""]
            ELSE IF r <= Len(sh) THEN sh[r] ELSE BlankRow]

----------------------------------------------------------------------------
(* The payload shared by FilterFile and GapsActionsFile *)

\* Mutant of GapData: the caller id is sent without the text prefix.
GapData_plain_caller_id(start_row, gaps, md, start_col, end_col) ==
    LET caller_display == IF md.nick_name # "" THEN md.nick_name ELSE md.caller_id
        caller_id_text == md.caller_id
        end_row == start_row + Len(gaps) - 1
    IN  << [col_start |-> <<"A">>, col_end |-> <<"A">>,
            start_row |-> start_row, end_row |-> end_row,
            values |-> [i \in 1..Len(gaps) |-> <<gaps[i]>>]],
           [col_start |-> start_col, col_end |-> end_col,
            start_row |-> start_row, end_row |-> end_row,
            values |-> [i \in 1..Len(gaps) |->
                          <<caller_display, caller_id_text, md.date_str,
                            md.time_str, md.customers_input_file_name>>]] >>

\* The two ranges of one write: column A and the gap-info block.
GapData(start_row, gaps, md, start_col, end_col) ==
    LET caller_display == IF md.nick_name # "" THEN md.nick_name ELSE md.caller_id
        caller_id_text == IF md.caller_id # "" THEN "'" \o md.caller_id
                          ELSE md.caller_id
        end_row == start_row + Len(gaps) - 1
    IN  << [col_start |-> <<"A">>, col_end |-> <<"A">>,
            start_row |-> start_row, end_row |-> end_row,
            values |-> [i \in 1..Len(gaps) |-> <<gaps[i]>>]],
           [col_start |-> start_col, col_end |-> end_col,
            start_row |-> start_row, end_row |-> end_row,
            values |-> [i \in 1..Len(gaps) |->
                          <<caller_display, caller_id_text, md.date_str,
                            md.time_str, md.customers_input_file_name>>]] >>

----------------------------------------------------------------------------
(* Column-letter arithmetic.  A column is a sequence of letters. *)

Alphabet == <<"A", "B", "C", "D", "E", "F", "G", "H", "I", "J", "K", "L", "M",
              "N", "O", "P", "Q", "R", "S", "T", "U", "V", "W", "X", "Y", "Z">>

\* Mutant of LetterValue: 'A' counts as 0.
LetterValue_zero_based(c) == (CHOOSE i \in 1..26 : Alphabet[i] = c) - 1

\* ord(char) - ord('A') + 1
LetterValue(c) == CHOOSE i \in 1..26 : Alphabet[i] = c

RECURSIVE ColumnToNumberFrom(_, _, _)
ColumnToNumberFrom(col, i, result) ==
    IF i > Len(col) THEN result
    ELSE ColumnToNumberFrom(col, i + 1, result * 26 + LetterValue(col[i]))

column_to_number(col) == ColumnToNumberFrom(col, 1, 0)

RECURSIVE NumberToColumnFrom(_, _)
NumberToColumnFrom(num, result) ==
    IF num > 0
    THEN NumberToColumnFrom((num - 1) \div 26,
                            <<Alphabet[((num - 1) % 26) + 1]>> \o result)
    ELSE result

number_to_column(num) == NumberToColumnFrom(num, <<>>)

\* Mutant of get_column_letter_offset: one column too far.
get_column_letter_offset_one_more(start_column, offset) ==
    number_to_column(column_to_number(start_column) + offset + 1)

get_column_letter_offset(start_column, offset) ==
    number_to_column(column_to_number(start_column) + offset)

----------------------------------------------------------------------------
(* The insertion-point finders of FilterFile and GapsActionsFile.  readOk  *)
(* is FALSE when the read of the sheet raises.                             *)

\* not row or (len(row) > 0 and (row[0] is None or str(row[0]).strip() == ''))
RowIsEmpty(row) == row = <<>> \/ (Len(row) > 0 /\ Strip(row[1]) = "")

\* Smallest member of a non-empty set of integers.
Least(S) == CHOOSE x \in S : \A y \in S : x <= y

FF_find_first_empty_row(sh, readOk) ==
    IF ~readOk THEN 1
    ELSE LET values == ValuesGet(sh, 1, ReadLimit)
             empty == {i \in 1..Len(values) : RowIsEmpty(values[i])}
         IN  IF empty # {} THEN Least(empty) ELSE Len(values) + 1

GA_find_first_empty_row(sh, readOk) ==
    IF ~readOk THEN 1
    ELSE LET values == ValuesGet(sh, 1, ReadLimit)
             both == {i \in 0..(Len(values) - 2) :
                         RowIsEmpty(values[i + 1]) /\ RowIsEmpty(values[i + 2])}
         IN  IF both # {} THEN Least(both) + 1 ELSE Len(values) + 1

\* Step 1.5 of both writers: with space_row the first empty row is skipped,
\* unless it is row 1 or 2.
StartRow(cfg, first_empty_row) ==
    IF cfg.space_row /\ first_empty_row > 2
    THEN first_empty_row + 1
    ELSE first_empty_row

----------------------------------------------------------------------------
(* _insert_data_to_single_gaps_sheet of FilterFile and GapsActionsFile.    *)
(* io says which of the backend calls succeed: the sheet-name lookup       *)
(* (nameOk), the finder's read (readOk) and the value write (writeOk).     *)
(* The result holds the sheet afterwards and whether the call raised.      *)

InsertSingle(sh, cfg, gaps, md, io, first_empty_row) ==
    LET start_row == StartRow(cfg, first_empty_row)
        start_col == cfg.start_column_gap_info
        end_col == get_column_letter_offset(start_col, 4)
        data == GapData(start_row, gaps, md, start_col, end_col)
        base == [before |-> sh, n |-> Len(gaps), first_empty_row |-> 0,
                 start_row |-> 0, read |-> FALSE, wrote |-> FALSE,
                 raised |-> TRUE, sheet |-> sh, data |-> <<>>, inserted |-> 0]
    IN  IF ~io.nameOk THEN base
        ELSE IF gaps = <<>> THEN [base EXCEPT !.raised = FALSE]
        ELSE IF ~io.writeOk
        THEN [base EXCEPT !.read = TRUE, !.first_empty_row = first_empty_row,
                          !.start_row = start_row, !.data = data]
        ELSE [base EXCEPT !.read = TRUE, !.first_empty_row = first_empty_row,
                          !.start_row = start_row, !.data = data,
                          !.wrote = TRUE, !.raised = FALSE,
                          !.sheet = BatchUpdateValues(sh, data)]

FF_insert_data_to_single_gaps_sheet(sh, cfg, gaps, md, io) ==
    InsertSingle(sh, cfg, gaps, md, io, FF_find_first_empty_row(sh, io.readOk))

GA_insert_data_to_single_gaps_sheet(sh, cfg, gaps, md, io) ==
    InsertSingle(sh, cfg, gaps, md, io, GA_find_first_empty_row(sh, io.readOk))

----------------------------------------------------------------------------
(* Sequential runs of one writer against one sheet *)

IOGaps == [nameOk : BOOLEAN, readOk : BOOLEAN, writeOk : BOOLEAN]

AllOk == [nameOk |-> TRUE, readOk |-> TRUE, writeOk |-> TRUE]

NoRun == [who |-> "none", before |-> <<>>, n |-> 0, first_empty_row |-> 0,
          start_row |-> 0, read |-> FALSE, wrote |-> FALSE, raised |-> FALSE,
          data |-> <<>>, inserted |-> 0, io |-> AllOk, input |-> <<>>,
          retry |-> FALSE, orig |-> <<>>]

\* The configurations of a gaps sheet of FilterFile and GapsActionsFile.
GapsSheetConfigs ==
    [space_row : BOOLEAN, start_column_gap_info : {<<"C">>},
     copy_formulas_on_insert : {FALSE}, formula_template_row : {2}]

\* The bookkeeping of one finished run.  A run is a retry when the run
\* before it inserted its rows, failed to write, and had the same input.
Record(who, input, io, res) ==
    /\ sheet' = res.sheet
    /\ runsLeft' = runsLeft - 1
    /\ log' = IF res.wrote \/ res.inserted > 0
              THEN Append(log, [start_row |-> res.start_row,
                                gaps |-> IF res.wrote
                                         THEN [i \in 1..res.n |-> res.data[1].values[i][1]]
                                         ELSE <<>>,
                                inserted |-> res.inserted])
              ELSE log
    /\ last' = [who |-> who, before |-> res.before, n |-> res.n,
                first_empty_row |-> res.first_empty_row,
                start_row |-> res.start_row, read |-> res.read,
                wrote |-> res.wrote, raised |-> res.raised, data |-> res.data,
                inserted |-> res.inserted, io |-> io, input |-> input,
                retry |-> (last.inserted > 0 /\ ~last.wrote /\ last.input = input),
                orig |-> IF last.inserted > 0 /\ ~last.wrote /\ last.input = input
                         THEN last.before ELSE <<>>]
    /\ readFailed' = (readFailed \/ (res.read /\ ~io.readOk))
    /\ UNCHANGED <<config, sheets, attempts, response, finder, race, retry, paycall, inserter, scan, columns, server>>

FF_Run ==
    /\ runsLeft > 0
    /\ \E gaps \in GapLists(MaxGaps), io \in IOGaps :
       \E res \in {FF_insert_data_to_single_gaps_sheet(sheet, config, gaps,
                                                      Metadata, io)} :
          Record("FilterFile", gaps, io, res)

GA_Run ==
    /\ runsLeft > 0
    /\ \E gaps \in GapLists(MaxGaps), io \in IOGaps :
       \E res \in {GA_insert_data_to_single_gaps_sheet(sheet, config, gaps,
                                                      Metadata, io)} :
          Record("GapsActionsFile", gaps, io, res)

InitRest ==
    /\ log = <<>>
    /\ last = NoRun
    /\ readFailed = FALSE
    /\ sheets = <<>>
    /\ attempts = <<>>
    /\ response = [success |-> TRUE, error |-> "", returned |-> FALSE]
    /\ finder = [who |-> "none", raised |-> FALSE, row |-> 0, ok |-> TRUE]
    /\ race = <<>>
    /\ retry = <<>>
    /\ paycall = <<>>
    /\ inserter = <<>>
    /\ scan = <<>>
    /\ columns = <<>>
    /\ server = <<>>

\* FilterFile: a header and k contiguous data rows, then sequential runs.
InitFF ==
    /\ sheet \in {HeaderAndData(k) : k \in 0..MaxData}
    /\ config \in GapsSheetConfigs
    /\ runsLeft = MaxRuns
    /\ InitRest

SpecFF == InitFF /\ [][FF_Run]_vars

\* GapsActionsFile: the same, and also a sheet that fills the A1:A1000 read.
InitGA ==
    /\ sheet \in {HeaderAndData(k) : k \in (0..MaxData) \cup {ReadLimit - 1}}
    /\ config \in GapsSheetConfigs
    /\ runsLeft = MaxRuns
    /\ InitRest

SpecGA == InitGA /\ [][GA_Run]_vars

\* GapsActionsFile, one run against any content of column A.
AnyColumn ==
    UNION {[1..n -> {BlankRow, DataRow, [a |-> " ", info |-> <<>>, f |-> ""]}]
              : n \in 0..MaxCol}

InitAny ==
    /\ sheet \in AnyColumn
    /\ config \in GapsSheetConfigs
    /\ runsLeft = 1
    /\ InitRest

SpecGAAny == InitAny /\ [][GA_Run]_vars

----------------------------------------------------------------------------
(* BaseSpreadsheetUpdater *)

\* Index of the last row of values that is not empty, 0 if there is none.
RECURSIVE LastNotEmpty(_, _)
LastNotEmpty(values, i) ==
    IF i = 0 THEN 0
    ELSE IF ~(values[i] = <<>> \/ Strip(values[i][1]) = "") THEN i
    ELSE LastNotEmpty(values, i - 1)

\* The end of _find_first_empty_row: the space_row logic.
ApplySpaceRow(cfg_space_row, first_empty_row, last_non_empty_row) ==
    IF cfg_space_row
    THEN IF first_empty_row = 2 THEN 2
         ELSE IF first_empty_row = last_non_empty_row + 1 THEN first_empty_row
         ELSE first_empty_row
    ELSE first_empty_row

\* The chunk loop of _find_first_empty_row.  first_empty_row = 0 stands for
\* None; reads counts the reads issued; the read number failAt raises
\* (failAt = 0: no read raises), and the exception is re-raised.
RECURSIVE FindLoop(_, _, _, _, _, _, _)
FindLoop(sh, cfg_space_row, current_row, first_empty_row, last_non_empty_row, reads, failAt) ==
    IF ~(current_row < SafetyLimit)
    THEN [raised |-> FALSE, reads |-> reads,
          row |-> ApplySpaceRow(cfg_space_row,
                                IF first_empty_row = 0 THEN current_row
                                ELSE first_empty_row, last_non_empty_row)]
    ELSE IF reads + 1 = failAt
    THEN [raised |-> TRUE, reads |-> reads + 1, row |-> 0]
    ELSE
    LET values == ValuesGet(sh, current_row, current_row + chunk_size - 1)
        empty == {i \in 1..Len(values) :
                     values[i] = <<>> \/ Strip(values[i][1]) = ""}
        fe == IF first_empty_row = 0 /\ empty # {}
              THEN current_row + Least(empty) - 1
              ELSE first_empty_row
        lne == IF LastNotEmpty(values, Len(values)) > 0
               THEN current_row + LastNotEmpty(values, Len(values)) - 1
               ELSE last_non_empty_row
    IN  IF Len(values) < chunk_size
        THEN [raised |-> FALSE, reads |-> reads + 1,
              row |-> ApplySpaceRow(cfg_space_row,
                                    IF fe = 0 THEN current_row + Len(values)
                                    ELSE fe, lne)]
        ELSE IF ~cfg_space_row /\ fe # 0
        THEN [raised |-> FALSE, reads |-> reads + 1, row |-> fe]
        ELSE FindLoop(sh, cfg_space_row, current_row + chunk_size, fe, lne,
                      reads + 1, failAt)

\* Mutant of Base_find_first_empty_row: the scan starts at row 2.
Base_find_skips_row_one(sh, cfg, failAt) ==
    FindLoop(sh, cfg.space_row, 2, 0, 0, 0, failAt)

Base_find_first_empty_row(sh, cfg, failAt) ==
    FindLoop(sh, cfg.space_row, 1, 0, 0, 0, failAt)

\* insertDimension ROWS [start_index, end_index): blank rows are inserted and
\* the rows from start_index on move down.
InsertDimension(sh, start_index, end_index) ==
    LET n == end_index - start_index
        len == Max(Len(sh), start_index) + n
    IN  [r \in 1..len |->
            IF r <= start_index THEN (IF r <= Len(sh) THEN sh[r] ELSE BlankRow)
            ELSE IF r <= end_index THEN BlankRow
            ELSE sh[r - n]]

\* copyPaste PASTE_FORMULA of the row at source_row_index into the rows
\* [start_index, end_index): the formula cells of the destination take the
\* formula of the source row.
CopyPasteFormula(sh, source_row_index, start_index, end_index) ==
    LET src == IF source_row_index + 1 <= Len(sh)
               THEN sh[source_row_index + 1].f ELSE ""
    IN  [r \in 1..Len(sh) |->
            IF r > start_index /\ r <= end_index
            THEN [sh[r] EXCEPT !.f = src]
            ELSE sh[r]]

\* Mutant of source_row_index: a template row equal to start_row is taken
\* not to move.
source_row_index_strict(cfg, start_row, num_rows) ==
    Max(0, cfg.formula_template_row - 1)
        + (IF start_row < cfg.formula_template_row THEN num_rows ELSE 0)

\* The row the formulas are copied from (0-based).
source_row_index(cfg, start_row, num_rows) ==
    Max(0, cfg.formula_template_row - 1)
        + (IF start_row <= cfg.formula_template_row THEN num_rows ELSE 0)

\* Mutant of insert_rows: the 1-based start_row is used as the 0-based index,
\* so the rows go in one row too low.
insert_rows_one_row_low(sh, cfg, start_row, num_rows, ok) ==
    IF num_rows <= 0
    THEN [sheet |-> sh, raised |-> FALSE, calls |-> 0]
    ELSE IF ~ok
    THEN [sheet |-> sh, raised |-> TRUE, calls |-> 1]
    ELSE [sheet |-> InsertDimension(sh, start_row, start_row + num_rows),
          raised |-> FALSE, calls |-> 1]

\* _insert_rows: one batchUpdate holding the insertion and, when configured,
\* the formula copy; ok is FALSE when that call raises.
insert_rows(sh, cfg, start_row, num_rows, ok) ==
    IF num_rows <= 0
    THEN [sheet |-> sh, raised |-> FALSE, calls |-> 0]
    ELSE IF ~ok
    THEN [sheet |-> sh, raised |-> TRUE, calls |-> 1]
    ELSE
    LET start_index == Max(0, start_row - 1)
        end_index == start_index + num_rows
        inserted == InsertDimension(sh, start_index, end_index)
    IN  [sheet |-> IF cfg.copy_formulas_on_insert
                   THEN CopyPasteFormula(inserted,
                                         source_row_index(cfg, start_row, num_rows),
                                         start_index, end_index)
                   ELSE inserted,
         raised |-> FALSE, calls |-> 1]

----------------------------------------------------------------------------
(* GapSpreadsheetUpdater *)

\* Mutant of prepare_batch_updates: filter_items is ignored.
prepare_without_filter(cfg, start_row, kwargs) ==
    LET normalized_items == [i \in 1..Len(kwargs.callers_gap) |->
                                Strip(kwargs.callers_gap[i])]
        Kept(item) == Strip(item) \notin kwargs.filter_items.items
        filtered_items == normalized_items
        md == kwargs.metadata
        caller_display == md.nick_name
        start_col_letter == cfg.start_column_gap_info
        end_col_letter == get_column_letter_offset(start_col_letter, 4)
        caller_id_text == IF md.caller_id # "" THEN "'" \o md.caller_id
                          ELSE md.caller_id
        time_text == IF md.time_str # "" THEN "'" \o md.time_str ELSE ""
        end_row == start_row + Len(filtered_items) - 1
    IN  IF filtered_items = <<>> THEN <<>>
        ELSE << [col_start |-> <<"A">>, col_end |-> <<"A">>,
                 start_row |-> start_row, end_row |-> end_row,
                 values |-> [i \in 1..Len(filtered_items) |-> <<filtered_items[i]>>]],
                [col_start |-> start_col_letter, col_end |-> end_col_letter,
                 start_row |-> start_row, end_row |-> end_row,
                 values |-> [i \in 1..Len(filtered_items) |->
                               <<caller_display, caller_id_text, md.date_str,
                                 time_text, md.customers_input_file_name>>]] >>

\* _prepare_batch_updates: <<>> when nothing is left after filtering.
prepare_batch_updates(cfg, start_row, kwargs) ==
    LET normalized_items == [i \in 1..Len(kwargs.callers_gap) |->
                                Strip(kwargs.callers_gap[i])]
        Kept(item) == Strip(item) \notin kwargs.filter_items.items
        filtered_items == IF kwargs.filter_items.given
                          THEN SelectSeq(normalized_items, Kept)
                          ELSE normalized_items
        md == kwargs.metadata
        caller_display == md.nick_name
        start_col_letter == cfg.start_column_gap_info
        end_col_letter == get_column_letter_offset(start_col_letter, 4)
        caller_id_text == IF md.caller_id # "" THEN "'" \o md.caller_id
                          ELSE md.caller_id
        time_text == IF md.time_str # "" THEN "'" \o md.time_str ELSE ""
        end_row == start_row + Len(filtered_items) - 1
    IN  IF filtered_items = <<>> THEN <<>>
        ELSE << [col_start |-> <<"A">>, col_end |-> <<"A">>,
                 start_row |-> start_row, end_row |-> end_row,
                 values |-> [i \in 1..Len(filtered_items) |-> <<filtered_items[i]>>]],
                [col_start |-> start_col_letter, col_end |-> end_col_letter,
                 start_row |-> start_row, end_row |-> end_row,
                 values |-> [i \in 1..Len(filtered_items) |->
                               <<caller_display, caller_id_text, md.date_str,
                                 time_text, md.customers_input_file_name>>]] >>

\* Mutant of total_rows_to_insert: the separator row is forgotten.
total_rows_without_separator(rows_to_insert, cfg) == rows_to_insert

\* Mutant of total_rows_to_insert: a separator row is always added.
total_rows_always_separator(rows_to_insert, cfg) == rows_to_insert + 1

\* rows_to_insert plus the separator row.
total_rows_to_insert(rows_to_insert, cfg) ==
    rows_to_insert + (IF cfg.space_row THEN 1 ELSE 0)

\* Mutant of update_single_spreadsheet: an error of _insert_rows is swallowed
\* and the values are written over the rows that are there.
update_single_spreadsheet_writes_anyway(sh, cfg, kwargs, io) ==
    LET batch_updates == prepare_batch_updates(cfg, insert_at_row, kwargs)
        rows_to_insert == Len(batch_updates[1].values)
        total == total_rows_to_insert(rows_to_insert, cfg)
        ins == insert_rows(sh, cfg, insert_at_row, total, io.insertOk)
        base == [before |-> sh, n |-> 0, first_empty_row |-> 0,
                 start_row |-> 0, read |-> FALSE, wrote |-> FALSE,
                 raised |-> TRUE, sheet |-> sh, data |-> <<>>, inserted |-> 0]
    IN  IF ~io.nameOk THEN base
        ELSE IF batch_updates = <<>> THEN [base EXCEPT !.raised = FALSE]
        ELSE IF ~io.writeOk
        THEN [base EXCEPT !.n = rows_to_insert, !.data = batch_updates,
                          !.start_row = batch_updates[1].start_row,
                          !.inserted = IF ins.raised THEN 0 ELSE total,
                          !.sheet = ins.sheet]
        ELSE [base EXCEPT !.n = rows_to_insert, !.data = batch_updates,
                          !.start_row = batch_updates[1].start_row,
                          !.inserted = IF ins.raised THEN 0 ELSE total,
                          !.wrote = TRUE, !.raised = FALSE,
                          !.sheet = BatchUpdateValues(ins.sheet, batch_updates)]

\* _update_single_spreadsheet.  io: the sheet-name lookup (nameOk), the
\* batchUpdate of _insert_rows (insertOk), the value write (writeOk).
update_single_spreadsheet(sh, cfg, kwargs, io) ==
    LET batch_updates == prepare_batch_updates(cfg, insert_at_row, kwargs)
        rows_to_insert == Len(batch_updates[1].values)
        total == total_rows_to_insert(rows_to_insert, cfg)
        ins == insert_rows(sh, cfg, insert_at_row, total, io.insertOk)
        base == [before |-> sh, n |-> 0, first_empty_row |-> 0,
                 start_row |-> 0, read |-> FALSE, wrote |-> FALSE,
                 raised |-> TRUE, sheet |-> sh, data |-> <<>>, inserted |-> 0]
    IN  IF ~io.nameOk THEN base
        ELSE IF batch_updates = <<>> THEN [base EXCEPT !.raised = FALSE]
        ELSE IF ins.raised
        THEN [base EXCEPT !.n = rows_to_insert, !.data = batch_updates]
        ELSE IF ~io.writeOk
        THEN [base EXCEPT !.n = rows_to_insert, !.data = batch_updates,
                          !.start_row = batch_updates[1].start_row,
                          !.inserted = total, !.sheet = ins.sheet]
        ELSE [base EXCEPT !.n = rows_to_insert, !.data = batch_updates,
                          !.start_row = batch_updates[1].start_row,
                          !.inserted = total, !.wrote = TRUE, !.raised = FALSE,
                          !.sheet = BatchUpdateValues(ins.sheet, batch_updates)]

\* Mutant of update_spreadsheets: an update that wrote nothing is an error.
update_spreadsheets_needs_write(res) ==
    IF res.raised \/ ~res.wrote
    THEN [success |-> FALSE, error |-> "error", returned |-> TRUE]
    ELSE [success |-> TRUE, error |-> "", returned |-> TRUE]

\* update_spreadsheets: the outcome returned to the caller.
update_spreadsheets(res) ==
    IF res.raised THEN [success |-> FALSE, error |-> "error", returned |-> TRUE]
    ELSE [success |-> TRUE, error |-> "", returned |-> TRUE]

\* Which backend call of one update raises, if any.
IOUpd == {[nameOk |-> fail # "name", insertOk |-> fail # "insert",
           writeOk |-> fail # "write"] : fail \in {"none", "name", "insert", "write"}}

\* The first n of the gap values a caller may send.
GapPrefix(n) == SubSeq(<<"0099", "0012", "0013", "0014">>, 1, n)

\* The inputs of one update: gaps (possibly none), the metadata and an
\* optional filter.
UpdInputs ==
    [callers_gap : {GapPrefix(n) : n \in 0..MaxUpdGaps},
     metadata : {Metadata},
     filter_items : {[given |-> FALSE, items |-> {}],
                     [given |-> TRUE, items |-> {"0012"}]}]

Upd_Run ==
    /\ runsLeft > 0
    /\ \E kwargs \in UpdInputs, io \in IOUpd :
       \E res \in {update_single_spreadsheet(sheet, config, kwargs, io)} :
          /\ sheet' = res.sheet
          /\ runsLeft' = runsLeft - 1
          /\ log' = IF res.inserted > 0
                    THEN Append(log, [start_row |-> res.start_row,
                                      gaps |-> IF res.wrote
                                               THEN [i \in 1..res.n |->
                                                        res.data[1].values[i][1]]
                                               ELSE <<>>,
                                      inserted |-> res.inserted])
                    ELSE log
          /\ last' = [who |-> "GapSpreadsheetUpdater", before |-> res.before,
                      n |-> res.n, first_empty_row |-> res.first_empty_row,
                      start_row |-> res.start_row, read |-> res.read,
                      wrote |-> res.wrote, raised |-> res.raised,
                      data |-> res.data, inserted |-> res.inserted,
                      io |-> io, input |-> kwargs,
                      retry |-> (last.inserted > 0 /\ ~last.wrote
                                 /\ last.input = kwargs),
                      orig |-> IF last.inserted > 0 /\ ~last.wrote
                                  /\ last.input = kwargs
                               THEN last.before ELSE <<>>]
          /\ response' = update_spreadsheets(res)
          /\ UNCHANGED <<config, readFailed, sheets, attempts, finder, race, retry, paycall, inserter, scan, columns, server>>

\* A header and k data rows that differ from each other; the data rows carry
\* a formula when withFormulas is set.
DistinctData(k, withFormulas) ==
    [r \in 1..(k + 1) |->
        IF r = 1 THEN HeaderRow
        ELSE [a |-> <<"d1", "d2", "d3", "d4">>[r - 1], info |-> <<>>,
              f |-> IF withFormulas THEN "=fx" ELSE ""]]

UpdConfigs ==
    [space_row : BOOLEAN, start_column_gap_info : {<<"C">>},
     copy_formulas_on_insert : BOOLEAN, formula_template_row : {2}]

\* A sheet with a header alone or with MaxUpdData data rows below it; the
\* data rows carry formulas when the configuration copies formulas.
InitUpd ==
    /\ config \in UpdConfigs
    /\ sheet \in {DistinctData(k, config.copy_formulas_on_insert)
                     : k \in {0, MaxUpdData}}
    /\ runsLeft = MaxUpdRuns
    /\ InitRest

SpecUpd == InitUpd /\ [][Upd_Run]_vars

----------------------------------------------------------------------------
(* The per-sheet loops of FilterFile and GapsActionsFile, BaseProcess.run   *)
(* and the enter-gaps endpoint.  Here config holds gaps_sheet_config, the   *)
(* configured sheets in their order, and spreadsheet_updaters.              *)

SheetKeys == <<"gaps_sheet_archive", "gaps_sheet_runs", "gaps_sheet_3",
               "gaps_sheet_4">>

\* The entry of sheet i: a dictionary with wb_id and sheet_id ("valid"), a
\* dictionary without wb_id ("missing") or no dictionary at all ("other").
Entry(i, kind) ==
    [key |-> SheetKeys[i], isdict |-> kind # "other",
     wb_id |-> IF kind = "valid" THEN "wb" ELSE "",
     has_sheet_id |-> kind # "other",
     space_row |-> FALSE, start_column_gap_info |-> <<"C">>,
     copy_formulas_on_insert |-> FALSE, formula_template_row |-> 2]

\* if not wb_id or sheet_id is None: the sheet is skipped.
Skipped(e) == ~e.isdict \/ e.wb_id = "" \/ ~e.has_sheet_id

\* str(item).strip() not in allowed_gaps, items normalised.
FilteredGaps(callers_gap, allowed_gaps) ==
    LET normalized == [i \in 1..Len(callers_gap) |-> Strip(callers_gap[i])]
        Kept(item) == item \notin allowed_gaps
    IN  SelectSeq(normalized, Kept)

\* Mutant of GapsSheetLoop: the first sheet that raises ends the loop.
RECURSIVE GapsSheetLoopStopsOnError(_, _, _, _, _, _, _, _)
GapsSheetLoopStopsOnError(who, entries, i, shs, atts, gaps, md, ios) ==
    IF i > Len(entries) THEN [sheets |-> shs, attempts |-> atts]
    ELSE IF Skipped(entries[i])
    THEN GapsSheetLoopStopsOnError(who, entries, i + 1, shs, atts, gaps, md, ios)
    ELSE
    LET e == entries[i]
        res == IF who = "FilterFile"
               THEN FF_insert_data_to_single_gaps_sheet(shs[e.key], e, gaps, md, ios[i])
               ELSE GA_insert_data_to_single_gaps_sheet(shs[e.key], e, gaps, md, ios[i])
        done == [sheets |-> [shs EXCEPT ![e.key] = res.sheet],
                 attempts |-> Append(atts, [key |-> e.key, raised |-> res.raised,
                                            via |-> "loop"])]
    IN  IF res.raised THEN done
        ELSE GapsSheetLoopStopsOnError(who, entries, i + 1, done.sheets,
                                       done.attempts, gaps, md, ios)

\* The for loop of _insert_data_to_gaps_sheet from entry i on: a sheet
\* without wb_id or sheet_id is skipped, every other sheet is attempted, and
\* an exception of one sheet is caught before the next sheet is taken.
RECURSIVE GapsSheetLoop(_, _, _, _, _, _, _, _)
GapsSheetLoop(who, entries, i, shs, atts, gaps, md, ios) ==
    IF i > Len(entries) THEN [sheets |-> shs, attempts |-> atts]
    ELSE IF Skipped(entries[i])
    THEN GapsSheetLoop(who, entries, i + 1, shs, atts, gaps, md, ios)
    ELSE
    LET e == entries[i]
        res == IF who = "FilterFile"
               THEN FF_insert_data_to_single_gaps_sheet(shs[e.key], e, gaps, md, ios[i])
               ELSE GA_insert_data_to_single_gaps_sheet(shs[e.key], e, gaps, md, ios[i])
    IN  GapsSheetLoop(who, entries, i + 1, [shs EXCEPT ![e.key] = res.sheet],
                      Append(atts, [key |-> e.key, raised |-> res.raised,
                                    via |-> "loop"]),
                      gaps, md, ios)

\* FilterFile._insert_data_to_gaps_sheet: the gaps are filtered first.
FF_insert_data_to_gaps_sheet(entries, shs, callers_gap, allowed_gaps, md, ios) ==
    LET filtered_gaps == FilteredGaps(callers_gap, allowed_gaps)
    IN  IF entries = <<>> \/ filtered_gaps = <<>>
        THEN [sheets |-> shs, attempts |-> <<>>]
        ELSE GapsSheetLoop("FilterFile", entries, 1, shs, <<>>, filtered_gaps,
                           md, ios)

\* GapsActionsFile._insert_data_to_gaps_sheet: the gaps are normalised.
GA_insert_data_to_gaps_sheet(entries, shs, callers_gap, md, ios) ==
    LET normalized_gaps == [i \in 1..Len(callers_gap) |-> Strip(callers_gap[i])]
    IN  IF entries = <<>> \/ callers_gap = <<>>
        THEN [sheets |-> shs, attempts |-> <<>>]
        ELSE GapsSheetLoop("GapsActionsFile", entries, 1, shs, <<>>,
                           normalized_gaps, md, ios)

\* FilterFile.post_process_implementation: the sheets afterwards, the
\* attempts, and the post data returned.
FF_post_process_implementation(cfg, shs, callers_gap, allowed_gaps, md, ios) ==
    LET done == FF_insert_data_to_gaps_sheet(cfg.gaps_sheet_config, shs,
                                            callers_gap, allowed_gaps, md, ios)
        Kept(item) == Strip(item) \notin allowed_gaps
    IN  IF cfg.gaps_sheet_config # <<>> /\ callers_gap # <<>>
        THEN [sheets |-> done.sheets, attempts |-> done.attempts,
              callers_gap |-> SelectSeq(callers_gap, Kept)]
        ELSE [sheets |-> shs, attempts |-> <<>>, callers_gap |-> callers_gap]

\* GapsActionsFile.post_process_implementation.
GA_post_process_implementation(cfg, shs, callers_gap, md, ios) ==
    LET done == GA_insert_data_to_gaps_sheet(cfg.gaps_sheet_config, shs,
                                            callers_gap, md, ios)
    IN  IF cfg.gaps_sheet_config # <<>> /\ callers_gap # <<>>
        THEN [sheets |-> done.sheets, attempts |-> done.attempts,
              callers_gap |-> callers_gap]
        ELSE [sheets |-> shs, attempts |-> <<>>, callers_gap |-> callers_gap]

\* The metadata an updater finds in the post data: none.
NoMetadata ==
    [date_str |-> "", time_str |-> "", customers_input_file_name |-> "",
     caller_id |-> "", nick_name |-> ""]

\* The loop of BaseProcess.run over spreadsheet_updaters from updater i on:
\* update_spreadsheets is called with the post data and what it returns is
\* dropped.
RECURSIVE UpdatersLoop(_, _, _, _, _, _)
UpdatersLoop(updaters, i, shs, atts, post_data, io) ==
    IF i > Len(updaters) THEN [sheets |-> shs, attempts |-> atts]
    ELSE
    LET u == updaters[i]
        res == update_single_spreadsheet(
                   shs[u.key], u,
                   [callers_gap |-> post_data.callers_gap,
                    metadata |-> NoMetadata,
                    filter_items |-> [given |-> FALSE, items |-> {}]], io)
    IN  UpdatersLoop(updaters, i + 1, [shs EXCEPT ![u.key] = res.sheet],
                     Append(atts, [key |-> u.key,
                                   raised |-> ~update_spreadsheets(res).success,
                                   via |-> "updater"]),
                     post_data, io)

\* BaseProcess.run after generate_data: post_process, then the updaters.
\* What run returns (excel_info) holds nothing about the sheets.
BaseProcess_run(who, cfg, shs, callers_gap, allowed_gaps, md, ios, uio) ==
    LET post == IF who = "FilterFile"
                THEN FF_post_process_implementation(cfg, shs, callers_gap,
                                                    allowed_gaps, md, ios)
                ELSE GA_post_process_implementation(cfg, shs, callers_gap, md, ios)
        upd == UpdatersLoop(cfg.spreadsheet_updaters, 1, post.sheets,
                            post.attempts, post, uio)
    IN  [sheets |-> upd.sheets, attempts |-> upd.attempts,
         post_data |-> [callers_gap |-> post.callers_gap],
         excel_info |-> <<>>]

\* The enter-gaps endpoint: success unless an exception reaches it.
enter_gaps(ran, setupOk) ==
    IF ~setupOk
    THEN [success |-> FALSE, error |-> "error", returned |-> TRUE]
    ELSE [success |-> TRUE, error |-> "", returned |-> TRUE]

\* Which backend call of one sheet raises, if any.
IOLoop == {[nameOk |-> fail # "name", readOk |-> fail # "read",
            writeOk |-> fail # "write"] : fail \in {"none", "name", "write"}}

LoopGaps == {<<>>, <<" 0012 ">>, <<"0099", " 0012 ">>}

LoopDone(who, callers_gap, ran, resp) ==
    /\ sheets' = ran.sheets
    /\ attempts' = ran.attempts
    /\ response' = resp
    /\ runsLeft' = runsLeft - 1
    /\ last' = [NoRun EXCEPT !.who = who, !.input = callers_gap,
                             !.data = ran.post_data.callers_gap]
    /\ UNCHANGED <<sheet, config, log, readFailed, finder, race, retry, paycall, inserter, scan, columns, server>>

\* One request to the enter-gaps endpoint.
EnterGaps ==
    /\ runsLeft > 0
    /\ \E callers_gap \in LoopGaps, setupOk \in BOOLEAN,
          ios \in [1..Len(config.gaps_sheet_config) -> IOLoop], uio \in IOUpd :
          IF setupOk
          THEN \E ran \in {BaseProcess_run("GapsActionsFile", config, sheets,
                                           callers_gap, {}, Metadata, ios, uio)} :
                  LoopDone("enter_gaps", callers_gap, ran, enter_gaps(ran, TRUE))
          ELSE LoopDone("enter_gaps", callers_gap,
                        [sheets |-> sheets, attempts |-> <<>>,
                         post_data |-> [callers_gap |-> <<>>]],
                        enter_gaps(<<>>, FALSE))

\* One run of the FilterFile process from its post-processing on.
FilterRun ==
    /\ runsLeft > 0
    /\ \E callers_gap \in LoopGaps, allowed_gaps \in {{}, {"0012"}},
          ios \in [1..Len(config.gaps_sheet_config) -> IOLoop], uio \in IOUpd :
       \E ran \in {BaseProcess_run("FilterFile", config, sheets, callers_gap,
                                   allowed_gaps, Metadata, ios, uio)} :
          LoopDone("FilterFile.run", callers_gap, ran,
                   [success |-> TRUE, error |-> "", returned |-> TRUE])

\* MaxSheets configured sheets of any kind, each holding a header and a data
\* row, and at most one spreadsheet updater.
InitLoop ==
    /\ \E kinds \in [1..MaxSheets -> {"valid", "missing", "other"}],
          nupd \in 0..1 :
          config = [gaps_sheet_config |-> [i \in 1..MaxSheets |-> Entry(i, kinds[i])],
                    spreadsheet_updaters |-> [i \in 1..nupd |-> Entry(i, "valid")]]
    /\ sheets = [k \in {SheetKeys[i] : i \in 1..MaxSheets} |-> HeaderAndData(1)]
    /\ sheet = <<>>
    /\ runsLeft = 1
    /\ log = <<>>
    /\ last = NoRun
    /\ readFailed = FALSE
    /\ attempts = <<>>
    /\ response = [success |-> TRUE, error |-> "", returned |-> FALSE]
    /\ finder = [who |-> "none", raised |-> FALSE, row |-> 0, ok |-> TRUE]
    /\ race = <<>>
    /\ retry = <<>>
    /\ paycall = <<>>
    /\ inserter = <<>>
    /\ scan = <<>>
    /\ columns = <<>>
    /\ server = <<>>

SpecLoop == InitLoop /\ [][EnterGaps \/ FilterRun]_vars

----------------------------------------------------------------------------
(* Claims about the loops and the reported outcome *)

\* The keys of the configured sheets that have wb_id and sheet_id, in order.
ConfiguredKeys ==
    LET Usable(e) == ~Skipped(e)
        usable == SelectSeq(config.gaps_sheet_config, Usable)
    IN  [i \in 1..Len(usable) |-> usable[i].key]

\* The keys the loop attempted, in the order of the attempts.
AttemptedKeys ==
    LET ByLoop(a) == a.via = "loop"
        tried == SelectSeq(attempts, ByLoop)
    IN  [i \in 1..Len(tried) |-> tried[i].key]

\* The run reached the loop with at least one gap to write.
LoopEntered ==
    /\ response.returned
    /\ \/ last.who = "enter_gaps" /\ response.success /\ last.input # <<>>
       \/ last.who = "FilterFile.run" /\ last.data # <<>>

\* C8: a failure of one sheet does not stop the run: every configured sheet
\* that has wb_id and sheet_id is attempted exactly once, in configuration
\* order, whatever the outcome of the sheets before it.
C8_EverySheetAttemptedOnce ==
    LoopEntered => AttemptedKeys = ConfiguredKeys

\* Witness of C8: the first of three usable sheets raised and the two after
\* it were attempted all the same.
C8_Witness ==
    /\ LoopEntered
    /\ Len(AttemptedKeys) = 3
    /\ attempts[1].raised /\ ~attempts[2].raised

\* C9: whenever the update of at least one sheet fails, the result returned
\* to the caller of the run holds that sheet's error and does not indicate
\* plain overall success.
C9_SheetErrorsReported ==
    (response.returned /\ \E i \in 1..Len(attempts) : attempts[i].raised) =>
        (~response.success /\ response.error # "")

----------------------------------------------------------------------------
(* The three finders of the insertion row on their own, with a read that    *)
(* may fail.                                                                *)

Found(who, readOk, raised, row) ==
    /\ finder' = [who |-> who, raised |-> raised, row |-> row, ok |-> readOk]
    /\ runsLeft' = runsLeft - 1
    /\ UNCHANGED <<sheet, config, log, last, readFailed, sheets, attempts,
                   response, race, retry, paycall, inserter, scan, columns, server>>

\* FilterFile._find_first_empty_row: the except branch returns 1.
FF_Find ==
    /\ runsLeft > 0
    /\ \E readOk \in BOOLEAN :
          Found("FilterFile", readOk, FALSE, FF_find_first_empty_row(sheet, readOk))

\* GapsActionsFile._find_first_empty_row: the except branch returns 1.
GA_Find ==
    /\ runsLeft > 0
    /\ \E readOk \in BOOLEAN :
          Found("GapsActionsFile", readOk, FALSE,
                GA_find_first_empty_row(sheet, readOk))

\* BaseSpreadsheetUpdater._find_first_empty_row: the except branch raises.
Base_Find ==
    /\ runsLeft > 0
    /\ \E failAt \in 0..1 :
       \E res \in {Base_find_first_empty_row(sheet, config, failAt)} :
          Found("BaseSpreadsheetUpdater", ~res.raised, res.raised, res.row)

InitFind ==
    /\ sheet \in AnyColumn
    /\ config \in GapsSheetConfigs
    /\ runsLeft = MaxRuns
    /\ InitRest

SpecFind == InitFind /\ [][FF_Find \/ GA_Find \/ Base_Find]_vars

\* C10: on an I/O error while reading the sheet, the finder of the insertion
\* row returns row 1 and never raises.
C10_FinderFallsBackToRowOne ==
    (finder.who # "none" /\ ~finder.ok) => (~finder.raised /\ finder.row = 1)

----------------------------------------------------------------------------
(* Claims about the FilterFile and GapsActionsFile gap writes *)

\* Row r of the sheet holds v in column A.
Holds(sh, r, v) == r <= Len(sh) /\ sh[r].a = v

\* Every gap of every earlier successful write is still in the row it was
\* written to.
EarlierGapsKept ==
    \A i \in 1..Len(log) : \A j \in 1..Len(log[i].gaps) :
       Holds(sheet, log[i].start_row + j - 1, log[i].gaps[j])

\* C1: FilterFile gap write, space_row on or off, from a header and k >= 0
\* contiguous data rows: after any sequence of sequential runs (whose finder
\* reads all succeeded) every gap written by an earlier run is still present
\* in column A, in the row it was written to.
C1_FilterFileKeepsEarlierGaps ==
    (last.who = "FilterFile" /\ ~readFailed) => EarlierGapsKept

\* C3: GapsActionsFile gap write, from a header and contiguous data rows of
\* any length (also beyond the A1:A1000 read): after any sequence of
\* sequential runs (whose finder reads all succeeded) every gap written by an
\* earlier run is still present in column A.
C3_GapsActionsKeepsEarlierGaps ==
    (last.who = "GapsActionsFile" /\ ~readFailed) => EarlierGapsKept

\* Row r of the sheet is empty in column A (absent or blank after trimming).
EmptyAt(sh, r) == r > Len(sh) \/ Strip(sh[r].a) = ""

\* C4: for any content of column A and any N >= 1 gaps, every row of
\* start_row..start_row+N-1 that GapsActionsFile writes was empty in column A
\* when the finder read the sheet.
C4_GapsActionsWritesOnlyEmptyRows ==
    (last.who = "GapsActionsFile" /\ last.wrote /\ last.io.readOk) =>
        \A r \in last.start_row..(last.start_row + last.n - 1) :
            EmptyAt(last.before, r)

----------------------------------------------------------------------------
(* Claims about GapSpreadsheetUpdater *)

Separator == IF config.space_row THEN 1 ELSE 0

\* Rows inserted by the runs logged after entry i.
RECURSIVE InsertedAfter(_)
InsertedAfter(i) ==
    IF i >= Len(log) THEN 0 ELSE log[i + 1].inserted + InsertedAfter(i + 1)

\* C2: update_spreadsheets never overwrites existing content: after a
\* successful call that writes N >= 1 gaps the header is unchanged and every
\* row that was at row r >= 2 is found unchanged at row r + N + s; and after
\* any sequence of calls the gaps of every earlier write are still present,
\* in their order, moved down by the rows inserted since.
C2_UpdateKeepsExistingRows ==
    /\ (last.who = "GapSpreadsheetUpdater" /\ last.wrote) =>
          /\ last.n >= 1
          /\ Len(sheet) = Len(last.before) + last.n + Separator
          /\ sheet[1] = last.before[1]
          /\ \A r \in 2..Len(last.before) :
                sheet[r + last.n + Separator] = last.before[r]
    /\ last.who = "GapSpreadsheetUpdater" =>
          \A i \in 1..Len(log) : \A j \in 1..Len(log[i].gaps) :
             Holds(sheet, log[i].start_row + InsertedAfter(i) + j - 1,
                   log[i].gaps[j])

\* Witness of C2: a second successful write, with the separator, to a sheet
\* that held data rows and the rows of the first write.
C2_Witness ==
    /\ last.who = "GapSpreadsheetUpdater" /\ last.wrote /\ config.space_row
    /\ Len(log) = 2 /\ log[1].gaps # <<>> /\ log[2].gaps # <<>>
    /\ Len(last.before) >= 6

C6_WriteStartsAtFinderRow ==
    (last.who = "GapSpreadsheetUpdater" /\ last.wrote) =>
       last.start_row = Base_find_first_empty_row(last.before, config, 0).row

\* The end-to-end scenario: a header and 3 data rows, separator enabled, one
\* gap "0099", no filter, every backend call succeeding.
Scenario ==
    /\ last.who = "GapSpreadsheetUpdater" /\ last.wrote /\ config.space_row
    /\ last.before = DistinctData(3, config.copy_formulas_on_insert)
    /\ last.input.callers_gap = <<"0099">>

\* C6 as amended: the rows are inserted at, and the payload is written from,
\* row 2 for every sheet content; in the scenario 2 rows are inserted at row 2
\* and the one gap is written to the ranges A2:A2 and C2:G2.
C6_WriteStartsAtRowTwo ==
    /\ (last.who = "GapSpreadsheetUpdater" /\ last.wrote) =>
          /\ last.start_row = 2
          /\ \A r \in 2..(last.inserted + 1) : r > Len(last.before) \/
                sheet[r + last.inserted] = last.before[r]
          /\ \A j \in 1..last.n :
                sheet[1 + j].a = last.data[1].values[j][1]
    /\ Scenario =>
          /\ last.inserted = 2
          /\ last.data[1].col_start = <<"A">> /\ last.data[1].col_end = <<"A">>
          /\ last.data[1].start_row = 2 /\ last.data[1].end_row = 2
          /\ last.data[1].values = <<<<"0099">>>>
          /\ last.data[2].col_start = <<"C">> /\ last.data[2].col_end = <<"G">>
          /\ last.data[2].start_row = 2 /\ last.data[2].end_row = 2
          /\ sheet[2].a = "0099" /\ sheet[3].a = "" /\ sheet[4].a = "d1"

\* Witness of C6: the scenario has run.
C6_Witness == Scenario /\ sheet[2].a = "0099"

----------------------------------------------------------------------------
(* The chunked finder of BaseSpreadsheetUpdater on short and long columns *)

\* The last row the chunk loop can read: the chunks start at rows 1,
\* 1 + chunk_size, ... below SafetyLimit.
ScanEnd == (((SafetyLimit - 2) \div chunk_size) + 1) * chunk_size

\* n filled rows followed by the rows of tail.
FilledThen(n, tail) == [i \in 1..n |-> DataRow] \o tail

\* Columns that end in the first chunk, in a later chunk, at the last row
\* read and beyond it.
LongColumns ==
    {FilledThen(n, tail) :
        n \in {chunk_size - 1, chunk_size, 2 * chunk_size, ScanEnd - 1, ScanEnd},
        tail \in {<<>>, <<DataRow>>, <<BlankRow, DataRow>>,
                  <<DataRow, BlankRow, BlankRow, DataRow>>}}

InitBaseFind ==
    /\ sheet \in AnyColumn \cup LongColumns
    /\ config \in GapsSheetConfigs
    /\ runsLeft = 1
    /\ InitRest

SpecBaseFind == InitBaseFind /\ [][Base_Find]_vars

\* The finder of BaseSpreadsheetUpdater returned a row.
BaseFound == finder.who = "BaseSpreadsheetUpdater" /\ finder.ok /\ ~finder.raised

\* The rows of the sheet the chunk loop can read.
ScannedRows == 1..Min(Len(sheet), ScanEnd)

\* C11: with space_row disabled, BaseSpreadsheetUpdater._find_first_empty_row
\* returns the smallest row that is empty (absent, or blank after trimming);
\* when every row read up to the safety limit is non-empty it returns the row
\* after the last row read.  The chunk the row lies in makes no difference.
C11_FirstEmptyRowWithoutSeparator ==
    (BaseFound /\ ~config.space_row) =>
        LET empties == {r \in ScannedRows : EmptyAt(sheet, r)}
        IN  finder.row = IF empties # {} THEN Least(empties)
                         ELSE Min(Len(sheet), ScanEnd) + 1

\* Witness of C11: the first empty row is a blank row of a later chunk.
C11_Witness ==
    /\ BaseFound /\ ~config.space_row
    /\ finder.row > chunk_size /\ finder.row < Len(sheet)
    /\ EmptyAt(sheet, finder.row)

\* C12: with space_row enabled, the finder returns row 2 for an empty sheet:
\* when column A holds only the header row and when it holds no rows at all.
C12_EmptySheetGivesRowTwo ==
    (BaseFound /\ config.space_row
       /\ (sheet = <<>> \/ (Len(sheet) = 1 /\ ~EmptyAt(sheet, 1)))) =>
        finder.row = 2

----------------------------------------------------------------------------
(* The payload of one gap write, for gaps with blanks and duplicates and    *)
(* for metadata with and without a nick name, caller id and time.           *)

\* Gap lists of up to MaxPayGaps values, untrimmed and repeated ones included.
PayloadGaps ==
    UNION {[1..n -> {"0012", " 0012 ", "0013"}] : n \in 0..MaxPayGaps}

PayloadMetadata ==
    [date_str : {"01.01.2025"}, time_str : {"", "10:00"},
     customers_input_file_name : {"f.xlsx"},
     caller_id : {"", "0501234567"}, nick_name : {"", "Dana"}]

\* The kwargs of update_spreadsheets.
PayloadInputs ==
    [callers_gap : PayloadGaps, metadata : PayloadMetadata,
     filter_items : {[given |-> FALSE, items |-> {}],
                     [given |-> TRUE, items |-> {}],
                     [given |-> TRUE, items |-> {"0012"}]}]

\* The gap-info block starts in column C, in column Z or in column AX.
PayloadConfigs ==
    [space_row : BOOLEAN,
     start_column_gap_info : {<<"C">>, <<"Z">>, <<"A", "X">>},
     copy_formulas_on_insert : {FALSE}, formula_template_row : {2}]

\* One update_spreadsheets call of GapSpreadsheetUpdater.
Upd_Payload ==
    /\ runsLeft > 0
    /\ \E kwargs \in PayloadInputs, io \in IOUpd :
       \E res \in {update_single_spreadsheet(sheet, config, kwargs, io)} :
          /\ sheet' = res.sheet
          /\ runsLeft' = runsLeft - 1
          /\ last' = [NoRun EXCEPT !.who = "GapSpreadsheetUpdater",
                                   !.before = res.before, !.n = res.n,
                                   !.start_row = res.start_row,
                                   !.wrote = res.wrote, !.raised = res.raised,
                                   !.data = res.data, !.inserted = res.inserted,
                                   !.io = io, !.input = kwargs]
          /\ response' = update_spreadsheets(res)
          /\ UNCHANGED <<config, log, readFailed, sheets, attempts, finder, race, retry, paycall, inserter, scan, columns, server>>

\* One _insert_data_to_single_gaps_sheet call of FilterFile; the gaps reach
\* it filtered and trimmed, and it is called only when some are left.
FF_Payload ==
    /\ runsLeft > 0
    /\ \E kwargs \in PayloadInputs, io \in IOGaps :
       /\ FilteredGaps(kwargs.callers_gap, kwargs.filter_items.items) # <<>>
       /\ \E res \in {FF_insert_data_to_single_gaps_sheet(
                       sheet, config,
                       FilteredGaps(kwargs.callers_gap, kwargs.filter_items.items),
                       kwargs.metadata, io)} :
             Record("FilterFile", kwargs, io, res)

\* One _insert_data_to_single_gaps_sheet call of GapsActionsFile; the gaps
\* reach it trimmed, and it is called only when there are some.
GA_Payload ==
    /\ runsLeft > 0
    /\ \E kwargs \in PayloadInputs, io \in IOGaps :
       /\ kwargs.callers_gap # <<>>
       /\ \E res \in {GA_insert_data_to_single_gaps_sheet(
                       sheet, config, FilteredGaps(kwargs.callers_gap, {}),
                       kwargs.metadata, io)} :
             Record("GapsActionsFile", kwargs, io, res)

InitPayload ==
    /\ sheet = HeaderAndData(1)
    /\ config \in PayloadConfigs
    /\ runsLeft = 1
    /\ InitRest

SpecPayload == InitPayload /\ [][Upd_Payload \/ FF_Payload \/ GA_Payload]_vars

----------------------------------------------------------------------------
(* Claims about the payload *)

\* The gaps of the list from position i on, trimmed, without those found in
\* items, in the order of the list.
RECURSIVE KeptFrom(_, _, _)
KeptFrom(gaps, items, i) ==
    IF i > Len(gaps) THEN <<>>
    ELSE IF Strip(gaps[i]) \in items THEN KeptFrom(gaps, items, i + 1)
    ELSE <<Strip(gaps[i])>> \o KeptFrom(gaps, items, i + 1)

\* The gaps that remain for the updater of the last call.
Remaining ==
    KeptFrom(last.input.callers_gap,
             IF last.input.filter_items.given THEN last.input.filter_items.items
             ELSE {}, 1)

\* The last call was an update of GapSpreadsheetUpdater that got as far as
\* _prepare_batch_updates.
Prepared == last.who = "GapSpreadsheetUpdater" /\ last.io.nameOk

\* C13: _prepare_batch_updates puts in column A exactly the input gaps,
\* trimmed, minus those whose trimmed value is in filter_items (none removed
\* when filter_items is None), in input order and with duplicates kept; the
\* row range has as many rows as gaps remain.
C13_ColumnAHoldsRemainingGaps ==
    Prepared =>
        IF Remaining = <<>> THEN last.data = <<>>
        ELSE /\ last.data[1].values = [i \in 1..Len(Remaining) |-> <<Remaining[i]>>]
             /\ last.data[1].end_row - last.data[1].start_row + 1 = Len(Remaining)

\* Witness of C13: gaps "0012", "0013" with filter {"0012"} give one row
\* holding "0013".
C13_Witness ==
    /\ Prepared
    /\ last.input.callers_gap = <<"0012", "0013">>
    /\ last.input.filter_items = [given |-> TRUE, items |-> {"0012"}]
    /\ last.data[1].values = << <<"0013">> >>
    /\ last.data[1].end_row = last.data[1].start_row

\* The last update of GapSpreadsheetUpdater had no gaps left after filtering
\* and touched nothing: no rows inserted, nothing written, sheet as before.
NothingToWrite == last.who = "GapSpreadsheetUpdater" /\ Remaining = <<>>

Untouched == last.inserted = 0 /\ ~last.wrote /\ sheet = last.before

\* C14 as stated: when no gaps are left after filtering, the update is a
\* successful no-op: no insertion, no write, the sheet unchanged, and
\* update_spreadsheets returns success.
C14_NoGapsIsSuccessfulNoOp ==
    NothingToWrite => (Untouched /\ response.success)

\* C14 as amended: when no gaps are left after filtering, no insertion and no
\* write is issued (a failing insertion or write cannot make the update
\* fail) and the sheet is unchanged; update_spreadsheets returns success
\* exactly when the sheet-name lookup before the preparer did not raise.
C14_NoGapsIsNoOp ==
    NothingToWrite =>
        /\ Untouched
        /\ response.returned
        /\ response.success = last.io.nameOk
        /\ last.raised = ~last.io.nameOk

\* Witness of C14: every gap was filtered out, the backend would have failed
\* the insertion, and the update succeeded without touching the sheet.
C14_Witness ==
    /\ NothingToWrite /\ Untouched
    /\ last.input.callers_gap # <<>>
    /\ ~last.io.insertOk
    /\ response.returned /\ response.success

\* The metadata rows of the last write.
WrittenInfo == last.data[2].values

\* C15: in every row written by GapSpreadsheetUpdater, FilterFile or
\* GapsActionsFile the first metadata cell is nick_name when nick_name is
\* not empty and caller_id otherwise.
C15_CallerDisplayFallsBackToCallerId ==
    (last.who # "none" /\ last.wrote) =>
        \A i \in 1..Len(WrittenInfo) :
           WrittenInfo[i][1] = IF last.input.metadata.nick_name # ""
                               THEN last.input.metadata.nick_name
                               ELSE last.input.metadata.caller_id

\* A value sent as text: prefixed with "'"; an empty value stays empty.
AsText(v) == IF v = "" THEN "" ELSE "'" \o v

\* C16 as stated: every metadata row written in one run is the same row and
\* its cells after caller_display are caller_id as text, date_str, time_str
\* and the customers file name: only caller_id carries the text prefix, date
\* and time are exactly as given.
C16_MetadataRowAsGiven ==
    (last.who # "none" /\ last.wrote) =>
        \A i \in 1..Len(WrittenInfo) :
           /\ WrittenInfo[i] = WrittenInfo[1]
           /\ Len(WrittenInfo[i]) = 5
           /\ WrittenInfo[i][2] = AsText(last.input.metadata.caller_id)
           /\ WrittenInfo[i][3] = last.input.metadata.date_str
           /\ WrittenInfo[i][4] = last.input.metadata.time_str
           /\ WrittenInfo[i][5] = last.input.metadata.customers_input_file_name

\* C16 as amended: every metadata row written in one run is the same row of
\* five cells; after caller_display come caller_id as text (prefixed unless
\* empty), date_str as given, the time and the customers file name; the time
\* is time_str as given for FilterFile and GapsActionsFile and time_str as
\* text (prefixed unless empty) for GapSpreadsheetUpdater.
C16_MetadataRowPerWriter ==
    (last.who # "none" /\ last.wrote) =>
        \A i \in 1..Len(WrittenInfo) :
           /\ WrittenInfo[i] = WrittenInfo[1]
           /\ Len(WrittenInfo[i]) = 5
           /\ WrittenInfo[i][2] = AsText(last.input.metadata.caller_id)
           /\ WrittenInfo[i][3] = last.input.metadata.date_str
           /\ WrittenInfo[i][4] = IF last.who = "GapSpreadsheetUpdater"
                                  THEN AsText(last.input.metadata.time_str)
                                  ELSE last.input.metadata.time_str
           /\ WrittenInfo[i][5] = last.input.metadata.customers_input_file_name

\* Witness of C16: GapSpreadsheetUpdater wrote two rows with time "10:00".
C16_Witness ==
    /\ last.who = "GapSpreadsheetUpdater" /\ last.wrote
    /\ Len(WrittenInfo) = 2
    /\ last.input.metadata.time_str = "10:00"
    /\ last.input.metadata.caller_id # ""

\* The number of a column of one or two letters: A = 1, Z = 26, AA = 27.
ColIndex(col) ==
    IF Len(col) = 1 THEN LetterValue(col[1])
    ELSE 26 * LetterValue(col[1]) + LetterValue(col[2])

----------------------------------------------------------------------------
(* Two runs of one gap writer against the same sheet.  A run reads the      *)
(* first empty row and writes later; the runs interleave freely, or, when   *)
(* race.serial is set, a run starts only when no other run is under way.    *)

Runs == 1..2

\* The first step of _insert_data_to_single_gaps_sheet: the sheet-name
\* lookup and the finder's read.
RaceFind ==
    \E r \in Runs :
       /\ race.pc[r] = "find"
       /\ race.serial => \A q \in Runs : race.pc[q] # "write"
       /\ \E gaps \in GapLists(MaxGaps), fail \in {"none", "name", "read"} :
             /\ race' = IF fail = "name"
                        THEN [race EXCEPT !.pc[r] = "done"]
                        ELSE [race EXCEPT
                                !.pc[r] = "write", !.gaps[r] = gaps,
                                !.row[r] =
                                    IF race.who = "FilterFile"
                                    THEN FF_find_first_empty_row(sheet, fail # "read")
                                    ELSE GA_find_first_empty_row(sheet, fail # "read")]
             /\ readFailed' = (readFailed \/ fail = "read")
       /\ UNCHANGED <<sheet, config, runsLeft, log, last, sheets, attempts,
                      response, finder, retry, paycall, inserter, scan, columns, server>>

\* The rest of _insert_data_to_single_gaps_sheet: the payload is built from
\* the row found before and written.
RaceWrite ==
    \E r \in Runs :
       /\ race.pc[r] = "write"
       /\ \E writeOk \in BOOLEAN :
          \E res \in {InsertSingle(sheet, config, race.gaps[r], Metadata,
                                   [nameOk |-> TRUE, readOk |-> TRUE,
                                    writeOk |-> writeOk], race.row[r])} :
             /\ sheet' = res.sheet
             /\ log' = IF res.wrote
                       THEN Append(log, [start_row |-> res.start_row,
                                         gaps |-> race.gaps[r], inserted |-> 0])
                       ELSE log
             /\ last' = [NoRun EXCEPT !.who = race.who, !.before = res.before,
                                      !.n = res.n, !.start_row = res.start_row,
                                      !.first_empty_row = res.first_empty_row,
                                      !.wrote = res.wrote, !.raised = res.raised,
                                      !.data = res.data, !.input = race.gaps[r]]
       /\ race' = [race EXCEPT !.pc[r] = "done"]
       /\ UNCHANGED <<config, runsLeft, readFailed, sheets, attempts, response,
                      finder, retry, paycall, inserter, scan, columns, server>>

\* A header and contiguous data rows, short or as long as the finder's read;
\* space_row is disabled.
InitRace ==
    /\ sheet \in {HeaderAndData(k) : k \in (0..MaxData) \cup {ReadLimit - 1}}
    /\ config \in {c \in GapsSheetConfigs : ~c.space_row}
    /\ \E serial \in BOOLEAN, who \in {"FilterFile", "GapsActionsFile"} :
          race = [serial |-> serial, who |-> who,
                  pc |-> [r \in Runs |-> "find"],
                  row |-> [r \in Runs |-> 0],
                  gaps |-> [r \in Runs |-> <<>>]]
    /\ runsLeft = 0
    /\ log = <<>>
    /\ last = NoRun
    /\ readFailed = FALSE
    /\ sheets = <<>>
    /\ attempts = <<>>
    /\ response = [success |-> TRUE, error |-> "", returned |-> FALSE]
    /\ finder = [who |-> "none", raised |-> FALSE, row |-> 0, ok |-> TRUE]
    /\ retry = <<>>
    /\ paycall = <<>>
    /\ inserter = <<>>
    /\ scan = <<>>
    /\ columns = <<>>
    /\ server = <<>>

SpecRace == InitRace /\ [][RaceFind \/ RaceWrite]_vars

\* Two writes went to the same start row and the gaps of the first are gone.
Overwritten ==
    /\ Len(log) = 2
    /\ log[1].start_row = log[2].start_row
    /\ ~EarlierGapsKept

\* C18, runs one after the other: with space_row disabled, when the two runs
\* do not interleave (and no finder read failed), no state is reached in
\* which both wrote to the same start row and the first writer's gaps are
\* overwritten.
C18_SerialRunsDoNotOverwrite ==
    (race.serial /\ ~readFailed) => ~Overwritten

\* C18, interleaved runs: both runs read before either wrote, both wrote to
\* the same start row and the first writer's gaps are overwritten (a state
\* to be reached, on a sheet shorter than the finder's read).
C18_InterleavedOverwrite ==
    /\ ~race.serial /\ ~readFailed
    /\ Overwritten
    /\ Len(sheet) < ReadLimit

----------------------------------------------------------------------------
(* _make_paycall_request_with_retry: one step per iteration of its loop *)

\* What one requests.post can do: answer with a good status, with a status
\* of retryable_status_codes, with another error status (raise_for_status
\* raises HTTPError), time out, fail with another RequestException, or fail
\* with an exception of another kind.
PostOutcomes ==
    {"ok", "retryable", "http_error", "timeout", "request_exception", "exception"}

\* The exception an outcome leaves in last_exception.
ExceptionOf(outcome) ==
    CASE outcome = "timeout" -> "Timeout"
      [] outcome \in {"retryable", "http_error"} -> "HTTPError"
      [] outcome = "request_exception" -> "RequestException"
      [] OTHER -> "Exception"

\* Mutant of raised_exception: RequestException is tested first, and a
\* Timeout is a RequestException.
raised_exception_tests_base_first(last_exception) ==
    IF last_exception \in {"Timeout", "HTTPError", "RequestException"}
    THEN "RequestException"
    ELSE "Exception"

\* The exception raised after the loop, by the type of last_exception
\* ("None": no attempt was made).
raised_exception(last_exception) ==
    IF last_exception = "None" THEN "Exception"
    ELSE IF last_exception = "Timeout" THEN "Timeout"
    ELSE IF last_exception \in {"HTTPError", "RequestException"}
    THEN "RequestException"
    ELSE "Exception"

\* range(max_retries + 1)
max_attempts(retry_config) == retry_config.max_retries + 1

\* Whether the loop goes on after a failed attempt.
will_retry(retry_config, attempt, outcome) ==
    IF outcome = "timeout"
    THEN retry_config.retry_on_timeout /\ attempt < retry_config.max_retries
    ELSE attempt < retry_config.max_retries

\* One iteration of the loop, or its end when the range is used up.
RetryAttempt ==
    /\ retry.pc = "run"
    /\ \/ /\ retry.attempt >= max_attempts(retry.cfg)
          /\ retry' = [retry EXCEPT
                         !.pc = "raised",
                         !.raised = raised_exception(retry.last_exception)]
       \/ /\ retry.attempt < max_attempts(retry.cfg)
          /\ \E outcome \in PostOutcomes :
             LET posted == [retry EXCEPT
                              !.posts = retry.posts + 1,
                              !.outcomes = Append(retry.outcomes, outcome),
                              !.waits = IF retry.attempt > 0
                                        THEN Append(retry.waits,
                                                    2 ^ (retry.attempt - 1))
                                        ELSE retry.waits]
             IN  retry' =
                   IF outcome = "ok" THEN [posted EXCEPT !.pc = "returned"]
                   ELSE IF will_retry(retry.cfg, retry.attempt, outcome)
                   THEN [posted EXCEPT !.attempt = retry.attempt + 1,
                                       !.last_exception = ExceptionOf(outcome)]
                   ELSE [posted EXCEPT
                           !.pc = "raised",
                           !.last_exception = ExceptionOf(outcome),
                           !.raised = raised_exception(ExceptionOf(outcome))]
    /\ UNCHANGED <<sheet, config, runsLeft, log, last, readFailed, sheets,
                   attempts, response, finder, race, paycall, inserter, scan, columns, server>>

\* The retry configuration: max_retries from none (a negative value makes
\* the range empty) to MaxRetries, timeouts retried or not.
InitRetry ==
    /\ \E max_retries \in (0 - 1)..MaxRetries, retry_on_timeout \in BOOLEAN :
          retry = [cfg |-> [max_retries |-> max_retries,
                            retry_on_timeout |-> retry_on_timeout],
                   pc |-> "run", attempt |-> 0, posts |-> 0,
                   last_exception |-> "None", raised |-> "None",
                   outcomes |-> <<>>, waits |-> <<>>]
    /\ sheet = <<>>
    /\ config = <<>>
    /\ runsLeft = 0
    /\ log = <<>>
    /\ last = NoRun
    /\ readFailed = FALSE
    /\ sheets = <<>>
    /\ attempts = <<>>
    /\ response = [success |-> TRUE, error |-> "", returned |-> FALSE]
    /\ finder = [who |-> "none", raised |-> FALSE, row |-> 0, ok |-> TRUE]
    /\ race = <<>>
    /\ paycall = <<>>
    /\ inserter = <<>>
    /\ scan = <<>>
    /\ columns = <<>>
    /\ server = <<>>

\* The loop is plain sequential code: an iteration that can run does run.
SpecRetry == InitRetry /\ [][RetryAttempt]_vars /\ WF_vars(RetryAttempt)

\* Every attempt before position n of the history failed.
AllFailedBefore(n) == \A i \in 1..(n - 1) : retry.outcomes[i] # "ok"

\* At most max_retries + 1 posts; a return hands back the first attempt that
\* succeeded; a raise follows failures only and its type goes by the last one.
RetryBounded ==
    /\ retry.posts <= Max(retry.cfg.max_retries + 1, 0)
    /\ retry.posts = Len(retry.outcomes)
    /\ retry.pc = "returned" =>
          /\ retry.posts >= 1
          /\ retry.outcomes[retry.posts] = "ok"
          /\ AllFailedBefore(retry.posts)
    /\ retry.pc = "run" => AllFailedBefore(retry.posts + 1)
    /\ retry.pc = "raised" =>
          /\ AllFailedBefore(retry.posts + 1)
          /\ retry.raised =
                IF retry.posts = 0 THEN "Exception"
                ELSE CASE retry.outcomes[retry.posts] = "timeout" -> "Timeout"
                       [] retry.outcomes[retry.posts] = "exception" -> "Exception"
                       [] OTHER -> "RequestException"

\* C19: _make_paycall_request_with_retry always terminates, after at most
\* max_retries + 1 HTTP attempts: it returns the response of the first
\* attempt that succeeds, or it raises Timeout, RequestException or Exception
\* according to the last failure; it never returns without a success.
C19_RetryTerminatesWithinBound ==
    []RetryBounded /\ <>(retry.pc \in {"returned", "raised"})

\* Witness of C19: every allowed attempt timed out, max_retries + 1 of them,
\* and Timeout was raised.
C19_Witness ==
    /\ retry.pc = "raised" /\ retry.raised = "Timeout"
    /\ retry.cfg.max_retries >= 2
    /\ retry.posts = retry.cfg.max_retries + 1

----------------------------------------------------------------------------
(* get_paycall_data: one step per iteration of its paging loop *)

\* Where a row's START lies: before start_date, inside the range, after
\* end_date, or "none" when the row has no START or one that does not parse.
StartClasses == {"before", "in", "after", "none"}

\* The pages PayCall can answer request p with, of 0..MaxRows rows. The row
\* at position i has the ID 10 * p + i, unique over the run, or the rows have
\* no ID (0: row.get("ID") is None); only the ID of the last row is ever read.
PagesOf(p) ==
    UNION {{[i \in 1..n |-> [ID |-> IF hasId THEN 10 * p + i ELSE 0, START |-> st[i]]] :
               st \in [1..n -> StartClasses], hasId \in BOOLEAN} : n \in 0..MaxRows}

\* rows[::-1]
Reverse(rows) == [i \in 1..Len(rows) |-> rows[Len(rows) + 1 - i]]

\* _build_payload: fromId is in the payload only when from_id is truthy
\* (0 stands for None).
build_payload(limit, from_id) ==
    [limit |-> limit, hasFromId |-> from_id # 0, fromId |-> from_id]

\* Position of the first row whose START is after end_date, or Len + 1.
FirstAfter(rows) ==
    Least({i \in 1..Len(rows) : rows[i].START = "after"} \cup {Len(rows) + 1})

\* _filter_calls_by_time: (filtered_rows, reached_end_time, from_id)
filter_calls_by_time(rows) ==
    IF rows = <<>>
    THEN [filtered_rows |-> <<>>, reached_end_time |-> FALSE, from_id |-> 0]
    ELSE [filtered_rows |->
              SelectSeq(SubSeq(rows, 1, FirstAfter(rows) - 1),
                        LAMBDA row : row.START = "in"),
          reached_end_time |-> FirstAfter(rows) <= Len(rows),
          from_id |-> rows[Len(rows)].ID]

\* Mutant of fetch_more: a page of exactly limit rows ends the paging.
fetch_more_needs_over_limit(rows, reached_end_time, limit) ==
    /\ ~reached_end_time
    /\ ~(Len(rows) <= limit)

\* The two breaks at the end of an iteration: another page is fetched unless
\* the end time was reached or the page is shorter than limit.
fetch_more(rows, reached_end_time, limit) ==
    /\ ~reached_end_time
    /\ ~(Len(rows) < limit)

\* One iteration of `while not reached_end_time`: build the payload, make the
\* request (it raises when the retries are used up or the answer does not
\* parse), reverse a v2 answer, filter it, and decide whether to go on.
Fetch ==
    /\ paycall.pc = "request"
    /\ paycall.page <= MaxPages
    /\ LET payload == build_payload(paycall.cfg.limit, paycall.from_id)
           asked == [paycall EXCEPT !.payload = payload,
                                    !.requests = paycall.requests + 1]
       IN  \/ paycall' = [asked EXCEPT !.pc = "raised"]
           \/ \E answer \in PagesOf(paycall.page) :
              \E rows \in {IF paycall.cfg.v2 THEN Reverse(answer) ELSE answer} :
              \E res \in {filter_calls_by_time(rows)} :
              \E done \in {[asked EXCEPT
                             !.rows = rows,
                             !.reached_end_time = res.reached_end_time,
                             !.from_id = res.from_id,
                             !.total = paycall.total + Len(res.filtered_rows)]} :
                  paycall' =
                    IF answer = <<>>
                    THEN [asked EXCEPT !.rows = <<>>, !.pc = "returned"]
                    ELSE IF fetch_more(rows, res.reached_end_time, paycall.cfg.limit)
                    THEN [done EXCEPT !.page = paycall.page + 1]
                    ELSE [done EXCEPT !.pc = "returned"]
    /\ UNCHANGED <<sheet, config, runsLeft, log, last, readFailed, sheets,
                   attempts, response, finder, race, retry, inserter, scan, columns, server>>

\* A valid PayCall configuration: limit of 1..MaxLimit rows a page, api_url
\* with or without "v2"; nothing fetched yet.
InitPaycall ==
    /\ \E limit \in 1..MaxLimit, v2 \in BOOLEAN :
          paycall = [cfg |-> [limit |-> limit, v2 |-> v2],
                     pc |-> "request", page |-> 1, from_id |-> 0,
                     reached_end_time |-> FALSE, requests |-> 0,
                     payload |-> build_payload(limit, 0),
                     rows |-> <<>>, total |-> 0]
    /\ sheet = <<>>
    /\ config = <<>>
    /\ runsLeft = 0
    /\ log = <<>>
    /\ last = NoRun
    /\ readFailed = FALSE
    /\ sheets = <<>>
    /\ attempts = <<>>
    /\ response = [success |-> TRUE, error |-> "", returned |-> FALSE]
    /\ finder = [who |-> "none", raised |-> FALSE, row |-> 0, ok |-> TRUE]
    /\ race = <<>>
    /\ retry = <<>>
    /\ inserter = <<>>
    /\ scan = <<>>
    /\ columns = <<>>
    /\ server = <<>>

SpecPaycall == InitPaycall /\ [][Fetch]_vars

\* The page just processed had at least limit rows.
PageFull == Len(paycall.rows) >= paycall.cfg.limit

\* No row of the page just processed starts after end_date.
NoneAfterEnd == \A i \in 1..Len(paycall.rows) : paycall.rows[i].START # "after"

\* After a page was received, a further request is pending exactly when the
\* page was full and had no row after end_date.
FurtherPageIff ==
    (paycall.requests >= 1 /\ paycall.pc \in {"request", "returned"}) =>
        ((paycall.pc = "request") <=> (PageFull /\ NoneAfterEnd))

\* A request that follows a page carries the ID of that page's last row as
\* fromId (no fromId when that row has no ID); the first request carries none.
CarriesLastId ==
    paycall'.requests = paycall.requests + 1 =>
        LET last_id == IF paycall.requests = 0 THEN 0
                       ELSE paycall.rows[Len(paycall.rows)].ID
        IN  /\ paycall'.payload.hasFromId = (last_id # 0)
            /\ paycall'.payload.hasFromId => paycall'.payload.fromId = last_id

\* C20: get_paycall_data requests a further page if and only if the page just
\* received had at least limit rows and none of them starts after end_date
\* (so it stops at the first short, empty or past-the-end page), and the next
\* request carries fromId equal to the ID of the last row just processed.
C20_PagingContinuesIffFullPage == []FurtherPageIff /\ [][CarriesLastId]_vars

\* Witness of C20: a second request went out carrying a fromId, and the
\* paging stopped at a page shorter than limit.
C20_Witness ==
    /\ paycall.pc = "returned" /\ paycall.requests >= 2
    /\ paycall.payload.hasFromId
    /\ paycall.rows # <<>> /\ ~PageFull /\ NoneAfterEnd

----------------------------------------------------------------------------
(* BaseSpreadsheetUpdater._insert_rows: the requests it builds *)

\* formula_copy_end_col when the configuration does not give it (None).
NoEndCol == 0 - 1

\* Mutant of insert_rows_requests: the num_rows <= 0 return is missing.
insert_rows_requests_without_guard(cfg, start_row, num_rows, columnCount) ==
    LET start_index == Max(0, start_row - 1)
        end_index == start_index + num_rows
        insertDimension == [kind |-> "insertDimension",
                            startIndex |-> start_index, endIndex |-> end_index]
        end_col_exclusive ==
            IF cfg.formula_copy_end_col = NoEndCol
            THEN (IF columnCount = 0 THEN FallbackColumnCount ELSE columnCount)
            ELSE cfg.formula_copy_end_col
    IN  IF cfg.copy_formulas_on_insert
        THEN [lookups |-> IF cfg.formula_copy_end_col = NoEndCol THEN 1 ELSE 0,
              requests |-> <<insertDimension,
                             [kind |-> "copyPaste",
                              sourceStartRowIndex |-> source_row_index(cfg, start_row, num_rows),
                              sourceEndRowIndex |-> source_row_index(cfg, start_row, num_rows) + 1,
                              startRowIndex |-> start_index,
                              endRowIndex |-> end_index,
                              startColumnIndex |-> 0,
                              endColumnIndex |-> Max(0, end_col_exclusive)]>>]
        ELSE [lookups |-> 0, requests |-> <<insertDimension>>]

\* What _insert_rows sends: the number of column-count lookups
\* (spreadsheets().get) and the requests of its one batchUpdate.  columnCount
\* is what the lookup finds, 0 when it raises or finds nothing.
insert_rows_requests(cfg, start_row, num_rows, columnCount) ==
    IF num_rows <= 0 THEN [lookups |-> 0, requests |-> <<>>]
    ELSE
    LET start_index == Max(0, start_row - 1)
        end_index == start_index + num_rows
        insertDimension == [kind |-> "insertDimension",
                            startIndex |-> start_index, endIndex |-> end_index]
        end_col_exclusive ==
            IF cfg.formula_copy_end_col = NoEndCol
            THEN (IF columnCount = 0 THEN FallbackColumnCount ELSE columnCount)
            ELSE cfg.formula_copy_end_col
    IN  IF cfg.copy_formulas_on_insert
        THEN [lookups |-> IF cfg.formula_copy_end_col = NoEndCol THEN 1 ELSE 0,
              requests |-> <<insertDimension,
                             [kind |-> "copyPaste",
                              sourceStartRowIndex |-> source_row_index(cfg, start_row, num_rows),
                              sourceEndRowIndex |-> source_row_index(cfg, start_row, num_rows) + 1,
                              startRowIndex |-> start_index,
                              endRowIndex |-> end_index,
                              startColumnIndex |-> 0,
                              endColumnIndex |-> Max(0, end_col_exclusive)]>>]
        ELSE [lookups |-> 0, requests |-> <<insertDimension>>]

\* A header and k data rows, each data row with a formula of its own.
FormulaRows(k) ==
    [r \in 1..(k + 1) |->
        IF r = 1 THEN HeaderRow
        ELSE [a |-> <<"d1", "d2", "d3", "d4">>[r - 1], info |-> <<>>,
              f |-> <<"=f2", "=f3", "=f4", "=f5">>[r - 1]]]

InsertConfigs ==
    [space_row : {FALSE}, start_column_gap_info : {<<"C">>},
     copy_formulas_on_insert : BOOLEAN,
     formula_template_row : 1..MaxTemplate,
     formula_copy_end_col : {NoEndCol, 7}]

\* One call of _insert_rows; batchOk is FALSE when the batchUpdate raises.
InsertRows ==
    /\ runsLeft > 0
    /\ runsLeft' = runsLeft - 1
    /\ \E start_row \in 0..MaxInsStart, num_rows \in (0 - 1)..MaxInsRows,
          batchOk \in BOOLEAN, columnCount \in {0, 12} :
       \E req \in {insert_rows_requests(config, start_row, num_rows, columnCount)} :
       \E res \in {insert_rows(sheet, config, start_row, num_rows, batchOk)} :
          /\ sheet' = res.sheet
          /\ inserter' = [called |-> TRUE, start_row |-> start_row,
                          num_rows |-> num_rows, before |-> sheet,
                          lookups |-> req.lookups, requests |-> req.requests,
                          batches |-> res.calls, raised |-> res.raised]
    /\ UNCHANGED <<config, log, last, readFailed, sheets, attempts, response,
                   finder, race, retry, paycall, scan, columns, server>>

InitInsert ==
    /\ config \in InsertConfigs
    /\ sheet \in {FormulaRows(k) : k \in {0, 3}}
    /\ runsLeft = 1
    /\ inserter = [called |-> FALSE, start_row |-> 0, num_rows |-> 0,
                   before |-> <<>>, lookups |-> 0, requests |-> <<>>,
                   batches |-> 0, raised |-> FALSE]
    /\ log = <<>>
    /\ last = NoRun
    /\ readFailed = FALSE
    /\ sheets = <<>>
    /\ attempts = <<>>
    /\ response = [success |-> TRUE, error |-> "", returned |-> FALSE]
    /\ finder = [who |-> "none", raised |-> FALSE, row |-> 0, ok |-> TRUE]
    /\ race = <<>>
    /\ retry = <<>>
    /\ paycall = <<>>
    /\ scan = <<>>
    /\ columns = <<>>
    /\ server = <<>>

SpecInsert == InitInsert /\ [][InsertRows]_vars

\* A call that asked for rows, with the formula copy configured.
CopyingCall ==
    /\ inserter.called /\ config.copy_formulas_on_insert
    /\ inserter.start_row >= 1 /\ inserter.num_rows >= 1

\* C21: with copy_formulas_on_insert, the source row of the formula copy is
\* never one of the just-inserted rows: its 0-based index is outside
\* [start_row - 1, start_row - 1 + num_rows), it is template_row - 1 +
\* num_rows when start_row <= template_row and template_row - 1 otherwise,
\* and the destination is exactly the inserted block (whose rows take the
\* formula the template row had).
C21_FormulaSourceOutsideInsertedRows ==
    CopyingCall =>
        LET s == inserter.start_row
            n == inserter.num_rows
            t == config.formula_template_row
            ins == inserter.requests[1]
            cp == inserter.requests[2]
        IN  /\ Len(inserter.requests) = 2
            /\ ins.kind = "insertDimension" /\ cp.kind = "copyPaste"
            /\ ~(cp.sourceStartRowIndex >= s - 1 /\ cp.sourceStartRowIndex < s - 1 + n)
            /\ cp.sourceStartRowIndex = IF s <= t THEN t - 1 + n ELSE t - 1
            /\ cp.sourceEndRowIndex = cp.sourceStartRowIndex + 1
            /\ ins.startIndex = s - 1 /\ ins.endIndex = s - 1 + n
            /\ cp.startRowIndex = ins.startIndex /\ cp.endRowIndex = ins.endIndex
            /\ (~inserter.raised /\ t <= Len(inserter.before)) =>
                  \A r \in s..(s + n - 1) : sheet[r].f = inserter.before[t].f

\* Witness of C21: rows inserted at the template row itself, which carries a
\* formula, and the call went through.
C21_Witness ==
    /\ CopyingCall /\ ~inserter.raised
    /\ inserter.start_row = config.formula_template_row
    /\ inserter.num_rows = 2
    /\ config.formula_template_row >= 2
    /\ Len(inserter.before) >= config.formula_template_row
    /\ sheet[inserter.start_row].f = inserter.before[config.formula_template_row].f

\* C25: _insert_rows with num_rows <= 0 is a no-op: no insert, no formula
\* copy, no column-count lookup, and the sheet is unchanged, for every
\* start_row and configuration.
C25_NoRowsIsNoOp ==
    (inserter.called /\ inserter.num_rows <= 0) =>
        /\ inserter.requests = <<>>
        /\ inserter.lookups = 0
        /\ inserter.batches = 0
        /\ ~inserter.raised
        /\ sheet = inserter.before

\* Witness of C25: a call for a negative number of rows under a configuration
\* that copies formulas and would have to look the column count up.
C25_Witness ==
    /\ inserter.called /\ inserter.num_rows < 0
    /\ config.copy_formulas_on_insert
    /\ config.formula_copy_end_col = NoEndCol
    /\ Len(inserter.before) > 1

----------------------------------------------------------------------------
(* BaseSpreadsheetUpdater._find_first_empty_row, one step per chunk read *)

\* The rows one read asks for: {column}{current_row}:{column}{current_row +
\* chunk_size - 1}.
chunk_range(current_row) ==
    [from |-> current_row, to |-> current_row + chunk_size - 1]

\* Mutant of next_chunk_row: the next chunk starts on the last row of this one.
next_chunk_row_overlapping(current_row) == current_row + chunk_size - 1

\* current_row += chunk_size
next_chunk_row(current_row) == current_row + chunk_size

\* One pass through `while current_row < 10000`: the loop test, the read
\* (which may raise; the exception is re-raised), the pass over the rows, and
\* the ways out of the loop with the space_row logic behind them.
ScanChunk ==
    /\ scan.pc = "loop"
    /\ \/ /\ ~(scan.current_row < SafetyLimit)
          /\ scan' = [scan EXCEPT
                        !.pc = "returned",
                        !.row = ApplySpaceRow(config.space_row,
                                              IF scan.first_empty_row = 0
                                              THEN scan.current_row
                                              ELSE scan.first_empty_row,
                                              scan.last_non_empty_row)]
       \/ /\ scan.current_row < SafetyLimit
          /\ scan' = [scan EXCEPT
                        !.pc = "raised",
                        !.ranges = Append(scan.ranges, chunk_range(scan.current_row))]
       \/ /\ scan.current_row < SafetyLimit
          /\ \E rng \in {chunk_range(scan.current_row)} :
             \E values \in {ValuesGet(sheet, rng.from, rng.to)} :
             LET empty == {i \in 1..Len(values) :
                              values[i] = <<>> \/ Strip(values[i][1]) = ""}
                 fe == IF scan.first_empty_row = 0 /\ empty # {}
                       THEN scan.current_row + Least(empty) - 1
                       ELSE scan.first_empty_row
                 lne == IF LastNotEmpty(values, Len(values)) > 0
                        THEN scan.current_row + LastNotEmpty(values, Len(values)) - 1
                        ELSE scan.last_non_empty_row
                 read == [scan EXCEPT
                            !.ranges = Append(scan.ranges, rng),
                            !.lens = Append(scan.lens, Len(values)),
                            !.first_empty_row = fe,
                            !.last_non_empty_row = lne]
             IN  scan' =
                   IF Len(values) < chunk_size
                   THEN [read EXCEPT
                           !.pc = "returned",
                           !.first_empty_row =
                               IF fe = 0 THEN scan.current_row + Len(values) ELSE fe,
                           !.row = ApplySpaceRow(config.space_row,
                                                 IF fe = 0
                                                 THEN scan.current_row + Len(values)
                                                 ELSE fe, lne)]
                   ELSE IF ~config.space_row /\ fe # 0
                   THEN [read EXCEPT !.pc = "returned", !.row = fe]
                   ELSE [read EXCEPT !.current_row = next_chunk_row(scan.current_row)]
    /\ UNCHANGED <<sheet, config, runsLeft, log, last, readFailed, sheets,
                   attempts, response, finder, race, retry, paycall, inserter,
                   columns, server>>

\* The call starts at row 1 with nothing found; the column is short, or
\* long enough to end in any chunk or beyond the last one.
InitScan ==
    /\ sheet \in AnyColumn \cup LongColumns
    /\ config \in GapsSheetConfigs
    /\ runsLeft = 0
    /\ scan = [pc |-> "loop", current_row |-> 1, first_empty_row |-> 0,
               last_non_empty_row |-> 0, ranges |-> <<>>, lens |-> <<>>,
               row |-> 0]
    /\ log = <<>>
    /\ last = NoRun
    /\ readFailed = FALSE
    /\ sheets = <<>>
    /\ attempts = <<>>
    /\ response = [success |-> TRUE, error |-> "", returned |-> FALSE]
    /\ finder = [who |-> "none", raised |-> FALSE, row |-> 0, ok |-> TRUE]
    /\ race = <<>>
    /\ retry = <<>>
    /\ paycall = <<>>
    /\ inserter = <<>>
    /\ columns = <<>>
    /\ server = <<>>

\* The loop is plain sequential code: a pass that can run does run.
SpecScan == InitScan /\ [][ScanChunk]_vars /\ WF_vars(ScanChunk)

\* At most 10 reads of 1000 consecutive rows each, contiguous from row 1, none
\* above row 10,000, and none after a chunk that came back short.
ScanBounded ==
    /\ Len(scan.ranges) <= 10
    /\ \A i \in 1..Len(scan.ranges) :
          /\ scan.ranges[i].to - scan.ranges[i].from + 1 = 1000
          /\ scan.ranges[i].from = 1000 * (i - 1) + 1
          /\ scan.ranges[i].to <= 10000
    /\ Len(scan.lens) <= Len(scan.ranges)
    /\ \A i \in 1..Len(scan.lens) :
          (scan.lens[i] < 1000) => (i = Len(scan.ranges) /\ scan.pc # "loop")

\* C22: BaseSpreadsheetUpdater._find_first_empty_row always terminates with a
\* bounded scan: at most 10 reads, each of a chunk of 1000 consecutive rows,
\* the chunks contiguous and non-overlapping from row 1, no read above row
\* 10,000, and no further read once a chunk comes back with fewer than 1000
\* rows.
C22_ScanIsBoundedAndTerminates ==
    []ScanBounded /\ <>(scan.pc \in {"returned", "raised"})

\* Witness of C22: the column is full down to row 10,000 and the scan ended
\* after its tenth read.
C22_Witness ==
    /\ scan.pc = "returned"
    /\ Len(scan.ranges) = 10
    /\ scan.ranges[10].to = 10000
    /\ scan.lens[10] = 1000

\* The stepwise scan and the finder of the other specifications agree.
ScanAgreesWithFinder ==
    scan.pc = "returned" => scan.row = Base_find_first_empty_row(sheet, config, 0).row

----------------------------------------------------------------------------
(* Column-letter arithmetic: the three copies of _get_column_letter_offset *)

\* FilterFile._get_column_letter_offset; its nested column_to_number and
\* number_to_column have the text of the BaseSpreadsheetUpdater ones.
FF_get_column_letter_offset(start_column, offset) ==
    number_to_column(column_to_number(start_column) + offset)

\* Mutant of GA_get_column_letter_offset: only the last letter moves, and it
\* wraps around at Z.
GA_get_column_letter_offset_last_letter(start_column, offset) ==
    [start_column EXCEPT ![Len(start_column)] = Alphabet[((LetterValue(start_column[Len(start_column)]) + offset - 1) % 26) + 1]]

\* GapsActionsFile._get_column_letter_offset, with the same nested helpers.
GA_get_column_letter_offset(start_column, offset) ==
    number_to_column(column_to_number(start_column) + offset)

\* The column letter strings over A..Z of 1 to n letters.
ColumnLetters(n) == UNION {[1..k -> {Alphabet[i] : i \in 1..26}] : k \in 1..n}

\* column_to_number then number_to_column of one column string.
RoundTripLetters ==
    /\ columns.kind = "none"
    /\ \E col \in ColumnLetters(MaxLetters) :
       \E num \in {column_to_number(col)} :
          columns' = [kind |-> "letters", col |-> col, num |-> num,
                      back |-> number_to_column(num)]
    /\ UNCHANGED <<sheet, config, runsLeft, log, last, readFailed, sheets,
                   attempts, response, finder, race, retry, paycall, inserter,
                   scan, server>>

\* number_to_column then column_to_number of one number.
RoundTripNumber ==
    /\ columns.kind = "none"
    /\ \E num \in 1..MaxNumber :
       \E col \in {number_to_column(num)} :
          columns' = [kind |-> "number", num |-> num, col |-> col,
                      back |-> column_to_number(col)]
    /\ UNCHANGED <<sheet, config, runsLeft, log, last, readFailed, sheets,
                   attempts, response, finder, race, retry, paycall, inserter,
                   scan, server>>

\* One call of each copy of _get_column_letter_offset with the same arguments.
OffsetColumn ==
    /\ columns.kind = "none"
    /\ \E start_column \in ColumnLetters(MaxStartLetters), offset \in 0..MaxOffset :
          columns' = [kind |-> "offset", col |-> start_column, offset |-> offset,
                      base |-> get_column_letter_offset(start_column, offset),
                      ff |-> FF_get_column_letter_offset(start_column, offset),
                      ga |-> GA_get_column_letter_offset(start_column, offset)]
    /\ UNCHANGED <<sheet, config, runsLeft, log, last, readFailed, sheets,
                   attempts, response, finder, race, retry, paycall, inserter,
                   scan, server>>

InitColumns ==
    /\ columns = [kind |-> "none"]
    /\ sheet = <<>>
    /\ config = <<>>
    /\ runsLeft = 0
    /\ log = <<>>
    /\ last = NoRun
    /\ readFailed = FALSE
    /\ sheets = <<>>
    /\ attempts = <<>>
    /\ response = [success |-> TRUE, error |-> "", returned |-> FALSE]
    /\ finder = [who |-> "none", raised |-> FALSE, row |-> 0, ok |-> TRUE]
    /\ race = <<>>
    /\ retry = <<>>
    /\ paycall = <<>>
    /\ inserter = <<>>
    /\ scan = <<>>
    /\ server = <<>>

SpecColumns == InitColumns /\ [][RoundTripLetters \/ RoundTripNumber \/ OffsetColumn]_vars

\* Position of a letter in the alphabet, 'A' = 1.
Digit(c) == CHOOSE i \in 1..26 : Alphabet[i] = c

\* Bijective base 26, written out: the index of a column of up to 4 letters.
IndexOf(col) ==
    CASE Len(col) = 1 -> Digit(col[1])
      [] Len(col) = 2 -> 26 * Digit(col[1]) + Digit(col[2])
      [] Len(col) = 3 -> 676 * Digit(col[1]) + 26 * Digit(col[2]) + Digit(col[3])
      [] OTHER -> 17576 * Digit(col[1]) + 676 * Digit(col[2])
                      + 26 * Digit(col[3]) + Digit(col[4])

\* The columns the round trip is stated for by name, with their indices.
NamedColumns ==
    {<<<<"A">>, 1>>, <<<<"Z">>, 26>>, <<<<"A", "A">>, 27>>, <<<<"A", "Z">>, 52>>,
     <<<<"B", "A">>, 53>>, <<<<"Z", "Z">>, 702>>, <<<<"A", "A", "A">>, 703>>}

\* C23: column-letter arithmetic round-trips: number_to_column(
\* column_to_number(L)) = L for every column string L of 1 to 3 letters (A,
\* Z, AA, AZ, BA, ZZ, AAA among them), and column_to_number(
\* number_to_column(n)) = n for every n >= 1; the numbering is bijective base
\* 26 with 'A' = 1 and no zero digit.
C23_ColumnArithmeticRoundTrips ==
    /\ columns.kind = "letters" =>
          /\ columns.back = columns.col
          /\ columns.num = IndexOf(columns.col)
          /\ \A named \in NamedColumns :
                columns.col = named[1] => columns.num = named[2]
    /\ columns.kind = "number" =>
          /\ columns.back = columns.num
          /\ columns.col \in ColumnLetters(3)
          /\ IndexOf(columns.col) = columns.num

\* Witness of C23: the round trip of AAA, the first three-letter column.
C23_Witness ==
    /\ columns.kind = "letters"
    /\ columns.col = <<"A", "A", "A">>
    /\ columns.num = 703
    /\ columns.back = <<"A", "A", "A">>

\* C24: _get_column_letter_offset(start, k) is the column of index
\* index(start) + k for every start column and k >= 0, across the Z -> AA
\* boundary too; offset 0 gives start itself and ("C", 4) gives "G"; the
\* copies in BaseSpreadsheetUpdater, FilterFile and GapsActionsFile agree.
C24_OffsetAddsToIndexInAllCopies ==
    columns.kind = "offset" =>
        /\ IndexOf(columns.base) = IndexOf(columns.col) + columns.offset
        /\ columns.offset = 0 => columns.base = columns.col
        /\ (columns.col = <<"C">> /\ columns.offset = 4) => columns.base = <<"G">>
        /\ columns.ff = columns.base
        /\ columns.ga = columns.base

\* Witness of C24: an offset that crosses from Z to AA.
C24_Witness ==
    /\ columns.kind = "offset"
    /\ columns.col = <<"Z">> /\ columns.offset = 1
    /\ columns.base = <<"A", "A">>
    /\ columns.ga = <<"A", "A">> /\ columns.ff = <<"A", "A">>

----------------------------------------------------------------------------
(* GapSpreadsheetUpdater: the order of the steps of one update *)

\* The latest run is an update of GapSpreadsheetUpdater.
Updated == last.who = "GapSpreadsheetUpdater"

\* _execute_batch_update was called in the latest run (it wrote, or it was
\* reached after the insertion and raised).
WriteCalled == last.wrote \/ last.inserted > 0

\* The sheet-name lookup raised, or _insert_rows was called and raised.
RaisedBeforeWrite ==
    \/ ~last.io.nameOk
    \/ (last.io.nameOk /\ last.n > 0 /\ ~last.io.insertOk)

\* No step of the latest run raised.
NoStepRaised ==
    /\ last.io.nameOk
    /\ last.n > 0 => (last.io.insertOk /\ last.io.writeOk)

\* C26: in GapSpreadsheetUpdater the value write happens only after a
\* successful row insertion: if the sheet-name lookup or _insert_rows raises,
\* _execute_batch_update is not called, and update_spreadsheets returns
\* success False with the error instead of raising; it returns success True
\* with no error only when no step raised.
C26_WriteOnlyAfterInsertion ==
    Updated =>
        /\ response.returned
        /\ RaisedBeforeWrite =>
              /\ ~WriteCalled
              /\ sheet = last.before
              /\ response.success = FALSE /\ response.error # ""
        /\ WriteCalled => (last.io.nameOk /\ last.io.insertOk)
        /\ response.success => (NoStepRaised /\ response.error = "")

\* Witness of C26: an update with gaps to write whose _insert_rows raised.
C26_Witness ==
    /\ Updated /\ last.io.nameOk /\ ~last.io.insertOk
    /\ last.n > 0
    /\ ~response.success /\ response.returned
    /\ sheet = last.before

----------------------------------------------------------------------------
(* Which failures of the billing request are retried *)

\* The attempt at position i of the history was the last request made.
LastRequest(i) == i = Len(retry.outcomes) /\ retry.pc = "raised"

\* C27: the billing request is retried only on a retryable status code and on
\* timeout (the latter only when retry_on_timeout is true): an error status
\* outside the retryable set (404, say) and a timeout with retry_on_timeout
\* false make _make_paycall_request_with_retry fail after that attempt,
\* without any further request.
C27_NonRetryableFailsAtOnce ==
    \A i \in 1..Len(retry.outcomes) :
        (\/ retry.outcomes[i] = "http_error"
         \/ (retry.outcomes[i] = "timeout" /\ ~retry.cfg.retry_on_timeout))
            => LastRequest(i)

\* The half of C27 that the code keeps: a timeout with retry_on_timeout false
\* is the last request.
C27_TimeoutWithoutRetryFailsAtOnce ==
    \A i \in 1..Len(retry.outcomes) :
        (retry.outcomes[i] = "timeout" /\ ~retry.cfg.retry_on_timeout)
            => LastRequest(i)

----------------------------------------------------------------------------
(* The two-empty-rows finder of GapsActionsFile *)

\* The finder of GapsActionsFile returned after a read that succeeded.
GAFound == finder.who = "GapsActionsFile" /\ finder.ok

\* The column-A content the finder read.
ColumnRead == ValuesGet(sheet, 1, ReadLimit)

\* Row r of the content read is empty; a row beyond the last returned row
\* counts as empty.
EmptyInRead(r) == r > Len(ColumnRead) \/ RowIsEmpty(ColumnRead[r])

\* C28: GapsActionsFile._find_first_empty_row returns the smallest row r such
\* that rows r and r + 1 of the column-A content read are both empty, a row
\* beyond the last returned row counting as empty, and (number of rows read)
\* + 1 when there is no such row among the rows read.
C28_FirstOfTwoEmptyRows ==
    GAFound =>
        finder.row = Least({r \in 1..(Len(ColumnRead) + 1) :
                               EmptyInRead(r) /\ EmptyInRead(r + 1)})

\* What the code keeps of C28: the pair of empty rows is looked for among the
\* returned rows only.
C28_FirstOfTwoEmptyRowsReturned ==
    GAFound =>
        LET both == {r \in 1..(Len(ColumnRead) - 1) :
                        EmptyInRead(r) /\ EmptyInRead(r + 1)}
        IN  finder.row = IF both # {} THEN Least(both) ELSE Len(ColumnRead) + 1

----------------------------------------------------------------------------
(* FilterFile.post_process_implementation: what it returns to the caller *)

\* The gap lists read from the filter workbook: raw cell values.
PostGaps == LoopGaps \cup {<<"0012", "0099">>}

\* One call of FilterFile.post_process_implementation.
PostProcess ==
    /\ runsLeft > 0
    /\ runsLeft' = runsLeft - 1
    /\ \E callers_gap \in PostGaps, allowed_gaps \in {{}, {"0012"}},
          ios \in [1..Len(config.gaps_sheet_config) -> IOLoop] :
       \E post \in {FF_post_process_implementation(config, sheets, callers_gap,
                                                   allowed_gaps, Metadata, ios)} :
          /\ sheets' = post.sheets
          /\ attempts' = post.attempts
          /\ last' = [who |-> "FilterFile.post_process_implementation",
                      input |-> callers_gap, allowed |-> allowed_gaps,
                      before |-> sheets, data |-> post.callers_gap]
    /\ UNCHANGED <<sheet, config, log, readFailed, response, finder, race,
                   retry, paycall, inserter, scan, columns, server>>

\* gaps_sheet_config is missing or empty, or holds up to MaxPostSheets sheets
\* of any kind; every sheet holds a header and a data row.
InitPost ==
    /\ \E n \in 0..MaxPostSheets :
       \E kinds \in [1..n -> {"valid", "missing", "other"}] :
          config = [gaps_sheet_config |-> [i \in 1..n |-> Entry(i, kinds[i])],
                    spreadsheet_updaters |-> <<>>]
    /\ sheets = [k \in {SheetKeys[i] : i \in 1..(MaxPostSheets + 1)} |-> HeaderAndData(1)]
    /\ sheet = <<>>
    /\ runsLeft = 1
    /\ log = <<>>
    /\ last = [who |-> "none", input |-> <<>>, allowed |-> {},
               before |-> <<>>, data |-> <<>>]
    /\ readFailed = FALSE
    /\ attempts = <<>>
    /\ response = [success |-> TRUE, error |-> "", returned |-> FALSE]
    /\ finder = [who |-> "none", raised |-> FALSE, row |-> 0, ok |-> TRUE]
    /\ race = <<>>
    /\ retry = <<>>
    /\ paycall = <<>>
    /\ inserter = <<>>
    /\ scan = <<>>
    /\ columns = <<>>
    /\ server = <<>>

SpecPost == InitPost /\ [][PostProcess]_vars

\* post_process_implementation has returned.
PostProcessed == last.who = "FilterFile.post_process_implementation"

\* The sheets the call wrote to, and the column-A values it wrote there.
WrittenSheets == {k \in DOMAIN sheets : Len(sheets[k]) > Len(last.before[k])}

WrittenTo(k) ==
    [i \in 1..(Len(sheets[k]) - Len(last.before[k])) |->
        sheets[k][Len(last.before[k]) + i].a]

\* C29: the gap list that FilterFile.post_process_implementation returns
\* never contains a member of the allow-list, for every gap list and every
\* configuration (an empty or missing gaps_sheet_config included), and it is
\* the list of gaps that was written to the sheets.
C29_ReturnedGapsExcludeAllowList ==
    PostProcessed =>
        /\ \A i \in 1..Len(last.data) : last.data[i] \notin last.allowed
        /\ \A k \in WrittenSheets : WrittenTo(k) = last.data

\* With gaps_sheet_config set, no returned gap is in the allow-list after
\* trimming, and the trimmed list is what each written sheet received.
C29_ReturnedGapsFilteredWhenConfigured ==
    (PostProcessed /\ config.gaps_sheet_config # <<>>) =>
        /\ \A i \in 1..Len(last.data) : Strip(last.data[i]) \notin last.allowed
        /\ \A k \in WrittenSheets :
              WrittenTo(k) = [i \in 1..Len(last.data) |-> Strip(last.data[i])]

----------------------------------------------------------------------------
(* get_paycall_data against a server that pages through its records *)

\* The records a server can hold: 0..MaxServer records in ascending start
\* time, so those before start_date come first and those after end_date
\* last; the record at position i has the ID 100 + i.
ServerRecords ==
    UNION {{[i \in 1..n |-> [ID |-> 100 + i,
                             START |-> IF i <= b THEN "before"
                                       ELSE IF i <= e THEN "in" ELSE "after"]] :
               b \in 0..n, e \in 0..n} : n \in 0..MaxServer}

\* The answer to a request: the up to payload.limit records that follow the
\* record whose ID is fromId, from the first record when the payload has no
\* fromId.
ServerAnswer(records, payload) ==
    LET first == IF payload.hasFromId
                 THEN Least({i \in 1..Len(records) : records[i].ID > payload.fromId}
                            \cup {Len(records) + 1})
                 ELSE 1
        end == IF first + payload.limit - 1 < Len(records)
               THEN first + payload.limit - 1 ELSE Len(records)
    IN  SubSeq(records, first, end)

\* One iteration of `while not reached_end_time` with the rows kept: build
\* the payload, make the request (it raises when the retries are used up),
\* reverse a v2 answer, filter it, extend all_rows, decide whether to go on.
GetPaycallData ==
    /\ paycall.pc = "request"
    /\ LET payload == build_payload(paycall.cfg.limit, paycall.from_id)
           asked == [paycall EXCEPT !.payload = payload,
                                    !.requests = paycall.requests + 1]
       IN  \/ paycall' = [asked EXCEPT !.pc = "raised"]
           \/ \E answer \in {ServerAnswer(server, payload)} :
              \E rows \in {IF paycall.cfg.v2 THEN Reverse(answer) ELSE answer} :
              \E res \in {filter_calls_by_time(rows)} :
              \E done \in {[asked EXCEPT
                             !.rows = rows,
                             !.reached_end_time = res.reached_end_time,
                             !.from_id = res.from_id,
                             !.all_rows = paycall.all_rows \o res.filtered_rows]} :
                  paycall' =
                    IF answer = <<>>
                    THEN [asked EXCEPT !.rows = <<>>, !.pc = "returned"]
                    ELSE IF fetch_more(rows, res.reached_end_time, paycall.cfg.limit)
                    THEN [done EXCEPT !.page = paycall.page + 1]
                    ELSE [done EXCEPT !.pc = "returned"]
    /\ UNCHANGED <<sheet, config, runsLeft, log, last, readFailed, sheets,
                   attempts, response, finder, race, retry, inserter, scan,
                   columns, server>>

\* A valid PayCall configuration and a server holding its records; nothing
\* fetched yet.
InitServer ==
    /\ server \in ServerRecords
    /\ \E limit \in 1..MaxLimit, v2 \in BOOLEAN :
          paycall = [cfg |-> [limit |-> limit, v2 |-> v2],
                     pc |-> "request", page |-> 1, from_id |-> 0,
                     reached_end_time |-> FALSE, requests |-> 0,
                     payload |-> build_payload(limit, 0),
                     rows |-> <<>>, all_rows |-> <<>>]
    /\ sheet = <<>>
    /\ config = <<>>
    /\ runsLeft = 0
    /\ log = <<>>
    /\ last = NoRun
    /\ readFailed = FALSE
    /\ sheets = <<>>
    /\ attempts = <<>>
    /\ response = [success |-> TRUE, error |-> "", returned |-> FALSE]
    /\ finder = [who |-> "none", raised |-> FALSE, row |-> 0, ok |-> TRUE]
    /\ race = <<>>
    /\ retry = <<>>
    /\ inserter = <<>>
    /\ scan = <<>>
    /\ columns = <<>>

\* The loop runs on until it returns or raises: each iteration is one
\* blocking request of a sequential program.
SpecServer == InitServer /\ [][GetPaycallData]_vars /\ WF_vars(GetPaycallData)

\* The server's records whose START lies in [start_date, end_date], in
\* server order.
RecordsInRange == SelectSeq(server, LAMBDA row : row.START = "in")

ReturnedExactly == paycall.pc = "returned" => paycall.all_rows = RecordsInRange

LoopLeft == paycall.pc \in {"returned", "raised"}

\* C30: against a server that holds finitely many records in ascending
\* start-time order and answers each request with the up to `limit` records
\* that follow fromId, get_paycall_data terminates, and what it returns is
\* exactly the records with START in [start_date, end_date], each once and
\* in server order.
C30_ReturnsExactlyTheRecordsInRange == <>LoopLeft /\ []ReturnedExactly

\* The loop is left for every configuration and every server.
C30_Terminates == <>LoopLeft

\* With an api_url without "v2", or pages of one record, the returned rows
\* are exactly the records in range.
C30_ExactWithoutReversal ==
    (paycall.cfg.v2 => paycall.cfg.limit = 1) => ReturnedExactly

====
